---- MODULE Spec2Model ----
(***************************************************************************)
(* A model of the gocache protocol session engine (Server.Run and          *)
(* Server.handleRequest): the banner, the decode loop, the bounded task    *)
(* group that runs one handler per accepted request, and the mutex-guarded *)
(* response writer.                                                        *)
(***************************************************************************)
EXTENDS Integers, Sequences, FiniteSets, TLC

\* Number of requests the decode loop accepts in one modelled session.
MaxDecoded == 2

\* Largest bodySize a request declares, and largest decoded body length.
MaxBody == 1

\* runtime.NumCPU() of the modelled host.
NumCPU == 2

\* Largest value of the Server.MaxRequests field that is modelled.
MaxLimit == 1

VARIABLES
    scope,   \* how widely the session's environment is explored (see Init)
    s,       \* the Server: which hooks are non-nil, and MaxRequests
    pc,      \* position of the goroutine executing Run
    req,     \* the req variable of the current loop iteration (<<>>: none)
    xerr,    \* Run's result: "running" until Run leaves the loop
    nread,   \* number of values dec.Decode has consumed from in
    last,    \* the last value dec.Decode consumed and where (<<>>: none)
    tasks,   \* the tasks started by run(), in start order; each keeps its
             \* request, its position, the answers its handler got (env), its
             \* response (rsp) and whether its encode failed (werr)
    emu,     \* the mutex guarding enc: TRUE when held
    wrbuf,   \* bytes buffered in wr (bufio.Writer), as message fragments
    wrerr,   \* the sticky error of wr: TRUE once a write to out failed
    out,     \* what has been written to out, as message fragments
    metrics, \* the counters of the Server (expvar.Int), by name
    fs,      \* the directory tree of a cachedir.Dir: the file at each path
    fs0,     \* the tree as the session found it
    calls    \* the calls of Dir.Get, Dir.Put and Dir.PruneEntries made so
             \* far, each with its arguments, its position and its locals

\* The variables of the disk store, and all the variables.
dirVars == <<fs, fs0, calls>>
vars == <<scope, s, pc, req, xerr, nread, last, tasks, emu, wrbuf, wrerr, out,
          metrics, dirVars>>

-----------------------------------------------------------------------------
(* Wire values and messages *)

Commands == {"get", "put", "close", "bogus"}

HexDigits == {"0", "1", "2", "3", "4", "5", "6", "7", "8", "9",
              "a", "b", "c", "d", "e", "f", "A", "B", "C", "D", "E", "F"}

\* hex.DecodeString(id) succeeds: an even number of hexadecimal digits.
IsHex(id) == Len(id) % 2 = 0 /\ \A i \in 1..Len(id) : id[i] \in HexDigits

\* The zero progResponse.
progResponse ==
    [ID |-> 0, Err |-> "", KnownCommands |-> <<>>, Miss |-> FALSE,
     OutputID |-> <<>>, Size |-> 0, Time |-> "nil", DiskPath |-> ""]

\* A decoded progRequest. ActionID is the hexadecimal form the hooks get;
\* Body is <<>> for a nil reader, <<n>> for a reader of n bytes.
progRequest(id, cmd, action, size) ==
    [ID |-> id, Command |-> cmd, ActionID |-> action, BodySize |-> size,
     Body |-> <<>>]

\* The id the peer puts on its next request: a number it has not used yet
\* ("a unique number per process across all requests").
NextID == Len(tasks) + 1

\* The number of requests the peer sends at most in a session of the scope.
Quota == IF scope = "single" THEN 1 ELSE MaxDecoded

\* The requests of the program of TestServer, ids apart; the put carries a
\* body as long as the test object.
TestProgram ==
    {<<"get", "01", 0>>, <<"get", "02", 0>>, <<"get", "99", 0>>,
     <<"put", "03", MaxBody>>, <<"close", "", 0>>}

\* The shapes (command, actionID, bodySize) of the requests the peer sends.
Shapes ==
    IF scope = "single" THEN Commands \X {"01"} \X (0..MaxBody)
    ELSE TestProgram

\* The values that may come next on the input. No further request comes once
\* the peer's quota of requests has been accepted.
WireValues ==
    {[kind |-> "eof"], [kind |-> "bad"]}
    \cup {[kind |-> "body", len |-> n] : n \in 0..MaxBody}
    \cup IF Len(tasks) >= Quota THEN {}
         ELSE {[kind |-> "request",
                r |-> progRequest(NextID, sh[1], sh[2], sh[3])] : sh \in Shapes}

DecodeRequestAnyErrorIsEOF(v) ==
    CASE v.kind = "request" -> [err |-> "", r |-> v.r]
      [] OTHER              -> [err |-> "EOF"]

\* dec.Decode(&req): the decoded request, or the error.
DecodeRequest(v) ==
    CASE v.kind = "eof"     -> [err |-> "EOF"]
      [] v.kind = "bad"     -> [err |-> "decode error"]
      [] v.kind = "body"    -> [err |-> "decode error"]
      [] v.kind = "request" -> [err |-> "", r |-> v.r]

\* dec.Decode(&body): the length of the decoded byte slice, or the error.
DecodeBody(v) ==
    CASE v.kind = "eof"     -> [err |-> "EOF"]
      [] v.kind = "bad"     -> [err |-> "decode error"]
      [] v.kind = "request" -> [err |-> "decode error"]
      [] v.kind = "body"    -> [err |-> "", len |-> v.len]

\* enc.Encode(v): the encoding of one message, as the fragments that reach wr.
Marshal(v) == <<[msg |-> v, part |-> "head"], [msg |-> v, part |-> "tail"]>>

-----------------------------------------------------------------------------
(* The Server *)

Servers ==
    [Get : BOOLEAN, Put : BOOLEAN, Close : BOOLEAN, MaxRequests : 0..MaxLimit]

maxRequestsIgnoresField(srv) == NumCPU

maxRequests(srv) ==
    IF srv.MaxRequests > 0 THEN srv.MaxRequests ELSE NumCPU

commandsWithoutClose(srv) ==
    (IF srv.Get THEN <<"get">> ELSE <<>>)
    \o (IF srv.Put THEN <<"put">> ELSE <<>>)

commands(srv) ==
    (IF srv.Get THEN <<"get">> ELSE <<>>)
    \o (IF srv.Put THEN <<"put">> ELSE <<>>)
    \o (IF srv.Close THEN <<"close">> ELSE <<>>)

\* What the hooks and the file system may answer to one handler.
ObjectIDs == {<<>>, <<"0", "b">>, <<"z", "z">>, <<"a">>}
DiskPaths == {"", "objPath"}
GetResults ==
    {[objectID |-> o, diskPath |-> p, err |-> FALSE] :
        o \in ObjectIDs, p \in DiskPaths}
    \cup {[objectID |-> <<>>, diskPath |-> "", err |-> TRUE]}
PutResults ==
    {[diskPath |-> "objPath", err |-> FALSE], [diskPath |-> "", err |-> TRUE]}
StatResults ==
    {[err |-> "not exist", regular |-> FALSE, size |-> 0],
     [err |-> "stat error", regular |-> FALSE, size |-> 0],
     [err |-> "", regular |-> FALSE, size |-> 0]}
    \cup {[err |-> "", regular |-> TRUE, size |-> n] : n \in 0..MaxBody}

\* The answers of a handler that asks nothing.
NoEnv ==
    [get |-> [objectID |-> <<>>, diskPath |-> "", err |-> FALSE],
     put |-> [diskPath |-> "objPath", err |-> FALSE],
     stat |-> [err |-> "not exist", regular |-> FALSE, size |-> 0],
     close |-> FALSE]

\* The hooks of TestServer: Get misses action 01, hits action 02 with the
\* test object and fails on action 99; Put returns the path of the test
\* object; Close returns nil. The test object is a regular file as long as
\* the body of the put.
TestGet(actionID) ==
    CASE actionID = "01" -> [objectID |-> <<>>, diskPath |-> "", err |-> FALSE]
      [] actionID = "02" -> [objectID |-> <<"0", "b", "1", "e", "c", "7">>,
                             diskPath |-> "objPath", err |-> FALSE]
      [] actionID = "99" -> [objectID |-> <<>>, diskPath |-> "", err |-> TRUE]
TestStat == [err |-> "", regular |-> TRUE, size |-> MaxBody]
TestEnv(r) ==
    CASE r.Command = "get" ->
           [NoEnv EXCEPT !.get = TestGet(r.ActionID),
                         !.stat = IF r.ActionID = "02" THEN TestStat ELSE @]
      [] r.Command = "put" -> [NoEnv EXCEPT !.stat = TestStat]
      [] OTHER -> NoEnv

\* The answers one handler of request r may get. An answer the handler does
\* not ask for is left as in NoEnv: no hook is called when it is nil, and
\* os.Stat is called only on the path of a usable answer of the hook.
Envs(srv, r) ==
    IF scope = "session" THEN {TestEnv(r)}
    ELSE CASE r.Command = "get" /\ srv.Get ->
                {[NoEnv EXCEPT !.get = g, !.stat = st] :
                    g \in {x \in GetResults :
                              ~x.err /\ x.objectID # <<>> /\ IsHex(x.objectID)},
                    st \in StatResults}
                \cup {[NoEnv EXCEPT !.get = g] : g \in GetResults}
           [] r.Command = "put" /\ srv.Put ->
                {[NoEnv EXCEPT !.put = p, !.stat = st] :
                    p \in {x \in PutResults : ~x.err}, st \in StatResults}
                \cup {[NoEnv EXCEPT !.put = p] : p \in {x \in PutResults : x.err}}
           [] r.Command = "close" /\ srv.Close ->
                {[NoEnv EXCEPT !.close = c] : c \in BOOLEAN}
           [] OTHER -> {NoEnv}

\* The hook handleRequest calls for request r: none when the hook of the
\* command is nil or the command is unknown.
HookOf(srv, r) ==
    CASE r.Command = "get" /\ srv.Get -> "Get"
      [] r.Command = "put" /\ srv.Put -> "Put"
      [] r.Command = "close" /\ srv.Close -> "Close"
      [] OTHER -> "none"

handleRequestDropsCloseError(srv, r, e) ==
    CASE r.Command = "get" ->
           IF ~srv.Get
             THEN [pr |-> <<[progResponse EXCEPT !.Miss = TRUE]>>, oerr |-> ""]
           ELSE IF e.get.err
             THEN [pr |-> <<>>, oerr |-> "get: hook error"]
           ELSE IF e.get.objectID = <<>> /\ e.get.diskPath = ""
             THEN [pr |-> <<[progResponse EXCEPT !.Miss = TRUE]>>, oerr |-> ""]
           ELSE IF e.get.objectID = <<>>
             THEN [pr |-> <<>>, oerr |-> "get: empty object ID"]
           ELSE IF ~IsHex(e.get.objectID)
             THEN [pr |-> <<>>, oerr |-> "get: invalid object ID"]
           ELSE IF e.stat.err = "not exist"
             THEN [pr |-> <<[progResponse EXCEPT !.Miss = TRUE]>>, oerr |-> ""]
           ELSE IF e.stat.err # ""
             THEN [pr |-> <<>>, oerr |-> "get: verify path"]
           ELSE IF ~e.stat.regular
             THEN [pr |-> <<>>, oerr |-> "get: verify path: not a regular file"]
           ELSE [pr |-> <<[progResponse EXCEPT !.Size = e.stat.size,
                                               !.Time = "modtime",
                                               !.DiskPath = e.get.diskPath]>>,
                 oerr |-> ""]
      [] r.Command = "put" ->
           IF ~srv.Put
             THEN [pr |-> <<>>, oerr |-> "put: cache is read-only"]
           ELSE IF e.put.err
             THEN [pr |-> <<>>, oerr |-> "put: hook error"]
           ELSE IF e.stat.err # ""
             THEN [pr |-> <<>>, oerr |-> "put verify"]
           ELSE IF e.stat.size # r.BodySize
             THEN [pr |-> <<>>, oerr |-> "put verify: size mismatch"]
           ELSE [pr |-> <<[progResponse EXCEPT !.DiskPath = e.put.diskPath]>>,
                 oerr |-> ""]
      [] r.Command = "close" ->
           IF srv.Close
             THEN [pr |-> <<progResponse>>, oerr |-> ""]
             ELSE [pr |-> <<progResponse>>, oerr |-> ""]
      [] OTHER -> [pr |-> <<>>, oerr |-> "unknown command"]

handleRequestMissingPathIsError(srv, r, e) ==
    CASE r.Command = "get" ->
           IF ~srv.Get
             THEN [pr |-> <<[progResponse EXCEPT !.Miss = TRUE]>>, oerr |-> ""]
           ELSE IF e.get.err
             THEN [pr |-> <<>>, oerr |-> "get: hook error"]
           ELSE IF e.get.objectID = <<>> /\ e.get.diskPath = ""
             THEN [pr |-> <<[progResponse EXCEPT !.Miss = TRUE]>>, oerr |-> ""]
           ELSE IF e.get.objectID = <<>>
             THEN [pr |-> <<>>, oerr |-> "get: empty object ID"]
           ELSE IF ~IsHex(e.get.objectID)
             THEN [pr |-> <<>>, oerr |-> "get: invalid object ID"]
           ELSE IF e.stat.err # ""
             THEN [pr |-> <<>>, oerr |-> "get: verify path"]
           ELSE IF ~e.stat.regular
             THEN [pr |-> <<>>, oerr |-> "get: verify path: not a regular file"]
           ELSE [pr |-> <<[progResponse EXCEPT !.Size = e.stat.size,
                                               !.Time = "modtime",
                                               !.DiskPath = e.get.diskPath]>>,
                 oerr |-> ""]
      [] r.Command = "put" ->
           IF ~srv.Put
             THEN [pr |-> <<>>, oerr |-> "put: cache is read-only"]
           ELSE IF e.put.err
             THEN [pr |-> <<>>, oerr |-> "put: hook error"]
           ELSE IF e.stat.err # ""
             THEN [pr |-> <<>>, oerr |-> "put verify"]
           ELSE IF e.stat.size # r.BodySize
             THEN [pr |-> <<>>, oerr |-> "put verify: size mismatch"]
           ELSE [pr |-> <<[progResponse EXCEPT !.DiskPath = e.put.diskPath]>>,
                 oerr |-> ""]
      [] r.Command = "close" ->
           IF srv.Close
             THEN [pr |-> <<progResponse>>,
                   oerr |-> IF e.close THEN "close: hook error" ELSE ""]
             ELSE [pr |-> <<progResponse>>, oerr |-> ""]
      [] OTHER -> [pr |-> <<>>, oerr |-> "unknown command"]

handleRequestAnyFileIsHit(srv, r, e) ==
    CASE r.Command = "get" ->
           IF ~srv.Get
             THEN [pr |-> <<[progResponse EXCEPT !.Miss = TRUE]>>, oerr |-> ""]
           ELSE IF e.get.err
             THEN [pr |-> <<>>, oerr |-> "get: hook error"]
           ELSE IF e.get.objectID = <<>> /\ e.get.diskPath = ""
             THEN [pr |-> <<[progResponse EXCEPT !.Miss = TRUE]>>, oerr |-> ""]
           ELSE IF e.get.objectID = <<>>
             THEN [pr |-> <<>>, oerr |-> "get: empty object ID"]
           ELSE IF ~IsHex(e.get.objectID)
             THEN [pr |-> <<>>, oerr |-> "get: invalid object ID"]
           ELSE IF e.stat.err = "not exist"
             THEN [pr |-> <<[progResponse EXCEPT !.Miss = TRUE]>>, oerr |-> ""]
           ELSE IF e.stat.err # ""
             THEN [pr |-> <<>>, oerr |-> "get: verify path"]
           ELSE [pr |-> <<[progResponse EXCEPT !.Size = e.stat.size,
                                               !.Time = "modtime",
                                               !.DiskPath = e.get.diskPath]>>,
                 oerr |-> ""]
      [] r.Command = "put" ->
           IF ~srv.Put
             THEN [pr |-> <<>>, oerr |-> "put: cache is read-only"]
           ELSE IF e.put.err
             THEN [pr |-> <<>>, oerr |-> "put: hook error"]
           ELSE IF e.stat.err # ""
             THEN [pr |-> <<>>, oerr |-> "put verify"]
           ELSE IF e.stat.size # r.BodySize
             THEN [pr |-> <<>>, oerr |-> "put verify: size mismatch"]
           ELSE [pr |-> <<[progResponse EXCEPT !.DiskPath = e.put.diskPath]>>,
                 oerr |-> ""]
      [] r.Command = "close" ->
           IF srv.Close
             THEN [pr |-> <<progResponse>>,
                   oerr |-> IF e.close THEN "close: hook error" ELSE ""]
             ELSE [pr |-> <<progResponse>>, oerr |-> ""]
      [] OTHER -> [pr |-> <<>>, oerr |-> "unknown command"]

handleRequestPutUnverified(srv, r, e) ==
    CASE r.Command = "get" ->
           IF ~srv.Get
             THEN [pr |-> <<[progResponse EXCEPT !.Miss = TRUE]>>, oerr |-> ""]
           ELSE IF e.get.err
             THEN [pr |-> <<>>, oerr |-> "get: hook error"]
           ELSE IF e.get.objectID = <<>> /\ e.get.diskPath = ""
             THEN [pr |-> <<[progResponse EXCEPT !.Miss = TRUE]>>, oerr |-> ""]
           ELSE IF e.get.objectID = <<>>
             THEN [pr |-> <<>>, oerr |-> "get: empty object ID"]
           ELSE IF ~IsHex(e.get.objectID)
             THEN [pr |-> <<>>, oerr |-> "get: invalid object ID"]
           ELSE IF e.stat.err = "not exist"
             THEN [pr |-> <<[progResponse EXCEPT !.Miss = TRUE]>>, oerr |-> ""]
           ELSE IF e.stat.err # ""
             THEN [pr |-> <<>>, oerr |-> "get: verify path"]
           ELSE IF ~e.stat.regular
             THEN [pr |-> <<>>, oerr |-> "get: verify path: not a regular file"]
           ELSE [pr |-> <<[progResponse EXCEPT !.Size = e.stat.size,
                                               !.Time = "modtime",
                                               !.DiskPath = e.get.diskPath]>>,
                 oerr |-> ""]
      [] r.Command = "put" ->
           IF ~srv.Put
             THEN [pr |-> <<>>, oerr |-> "put: cache is read-only"]
           ELSE IF e.put.err
             THEN [pr |-> <<>>, oerr |-> "put: hook error"]
           ELSE IF e.stat.err # ""
             THEN [pr |-> <<>>, oerr |-> "put verify"]
           ELSE [pr |-> <<[progResponse EXCEPT !.DiskPath = e.put.diskPath]>>,
                 oerr |-> ""]
      [] r.Command = "close" ->
           IF srv.Close
             THEN [pr |-> <<progResponse>>,
                   oerr |-> IF e.close THEN "close: hook error" ELSE ""]
             ELSE [pr |-> <<progResponse>>, oerr |-> ""]
      [] OTHER -> [pr |-> <<>>, oerr |-> "unknown command"]

\* handleRequest(ctx, req): pr is <<>> for a nil response, oerr is "" for a
\* nil error. e holds the answers of the hooks and of os.Stat.
handleRequest(srv, r, e) ==
    CASE r.Command = "get" ->
           IF ~srv.Get
             THEN [pr |-> <<[progResponse EXCEPT !.Miss = TRUE]>>, oerr |-> ""]
           ELSE IF e.get.err
             THEN [pr |-> <<>>, oerr |-> "get: hook error"]
           ELSE IF e.get.objectID = <<>> /\ e.get.diskPath = ""
             THEN [pr |-> <<[progResponse EXCEPT !.Miss = TRUE]>>, oerr |-> ""]
           ELSE IF e.get.objectID = <<>>
             THEN [pr |-> <<>>, oerr |-> "get: empty object ID"]
           ELSE IF ~IsHex(e.get.objectID)
             THEN [pr |-> <<>>, oerr |-> "get: invalid object ID"]
           ELSE IF e.stat.err = "not exist"
             THEN [pr |-> <<[progResponse EXCEPT !.Miss = TRUE]>>, oerr |-> ""]
           ELSE IF e.stat.err # ""
             THEN [pr |-> <<>>, oerr |-> "get: verify path"]
           ELSE IF ~e.stat.regular
             THEN [pr |-> <<>>, oerr |-> "get: verify path: not a regular file"]
           ELSE [pr |-> <<[progResponse EXCEPT !.Size = e.stat.size,
                                               !.Time = "modtime",
                                               !.DiskPath = e.get.diskPath]>>,
                 oerr |-> ""]
      [] r.Command = "put" ->
           IF ~srv.Put
             THEN [pr |-> <<>>, oerr |-> "put: cache is read-only"]
           ELSE IF e.put.err
             THEN [pr |-> <<>>, oerr |-> "put: hook error"]
           ELSE IF e.stat.err # ""
             THEN [pr |-> <<>>, oerr |-> "put verify"]
           ELSE IF e.stat.size # r.BodySize
             THEN [pr |-> <<>>, oerr |-> "put verify: size mismatch"]
           ELSE [pr |-> <<[progResponse EXCEPT !.DiskPath = e.put.diskPath]>>,
                 oerr |-> ""]
      [] r.Command = "close" ->
           IF srv.Close
             THEN [pr |-> <<progResponse>>,
                   oerr |-> IF e.close THEN "close: hook error" ELSE ""]
             ELSE [pr |-> <<progResponse>>, oerr |-> ""]
      [] OTHER -> [pr |-> <<>>, oerr |-> "unknown command"]

taskResponseWithoutID(r, h) ==
    IF h.oerr # ""
      THEN [progResponse EXCEPT !.Err = h.oerr]
      ELSE h.pr[1]

taskResponseWithoutErr(r, h) ==
    IF h.oerr # ""
      THEN [progResponse EXCEPT !.ID = r.ID]
      ELSE [h.pr[1] EXCEPT !.ID = r.ID]

taskResponseFresh(r, h) ==
    IF h.oerr # ""
      THEN [progResponse EXCEPT !.ID = r.ID, !.Err = h.oerr]
      ELSE [progResponse EXCEPT !.ID = r.ID]

\* The response the task of Run builds from the handler's result.
taskResponse(r, h) ==
    IF h.oerr # ""
      THEN [progResponse EXCEPT !.ID = r.ID, !.Err = h.oerr]
      ELSE [h.pr[1] EXCEPT !.ID = r.ID]

-----------------------------------------------------------------------------
(* encode: the mutex-guarded writer shared by Run and its tasks *)

LockWithoutWaiting == emu' = TRUE

\* emu.Lock()
Lock == emu = FALSE /\ emu' = TRUE

EncodeNothing(v) ==
    IF wrerr
      THEN emu' = FALSE /\ UNCHANGED <<wrbuf, wrerr, out>>
      ELSE UNCHANGED <<wrbuf, emu, wrerr, out>>

\* enc.Encode(v) into wr; fails at once when wr carries its sticky error,
\* and then the deferred emu.Unlock() runs.
Encode(v) ==
    IF wrerr
      THEN emu' = FALSE /\ UNCHANGED <<wrbuf, wrerr, out>>
      ELSE wrbuf' = wrbuf \o Marshal(v) /\ UNCHANGED <<emu, wrerr, out>>

\* wr.Flush() followed by the deferred emu.Unlock(): the buffer reaches out,
\* or the write fails after a part of it.
Flush(ok) ==
    /\ emu' = FALSE
    /\ IF ok
         THEN out' = out \o wrbuf /\ wrbuf' = <<>> /\ wrerr' = FALSE
         ELSE \E k \in 0..(Len(wrbuf) - 1) :
                 /\ out' = out \o SubSeq(wrbuf, 1, k)
                 /\ wrbuf' = SubSeq(wrbuf, k + 1, Len(wrbuf))
                 /\ wrerr' = TRUE

-----------------------------------------------------------------------------
(* Metrics *)

\* The counters of a new Server: every expvar.Int is zero.
NoMetrics ==
    [getRequests |-> 0, getHits |-> 0, getHitBytes |-> 0, getMisses |-> 0,
     getErrors |-> 0, putRequests |-> 0, putBytes |-> 0, putErrors |-> 0]

\* The counter handleRequest adds to when it starts on request r.
Requested(m, r) ==
    CASE r.Command = "get" -> [m EXCEPT !.getRequests = @ + 1]
      [] r.Command = "put" -> [m EXCEPT !.putRequests = @ + 1]
      [] OTHER -> m

ReturnedCountsMissedErrors(m, r, e, h) ==
    CASE r.Command = "get" ->
           LET hit == h.oerr = "" /\ ~h.pr[1].Miss
               isMiss == h.pr = <<>> \/ h.pr[1].Miss
           IN  [m EXCEPT !.getHits = IF hit THEN @ + 1 ELSE @,
                         !.getHitBytes = IF hit THEN @ + e.stat.size ELSE @,
                         !.getMisses = IF isMiss THEN @ + 1 ELSE @,
                         !.getErrors = IF h.oerr # "" THEN @ + 1 ELSE @]
      [] r.Command = "put" ->
           [m EXCEPT !.putBytes = IF h.oerr = "" THEN @ + e.stat.size ELSE @,
                     !.putErrors = IF h.oerr # "" THEN @ + 1 ELSE @]
      [] OTHER -> m

\* The counters handleRequest adds to when it returns h for request r, the
\* answers being e: for a get, getHits and getHitBytes before the return of
\* a hit, then, deferred, getMisses for a response that is a miss and
\* getErrors for an error; for a put, putBytes with the size os.Stat found
\* before the return of a success, then, deferred, putErrors for an error.
Returned(m, r, e, h) ==
    CASE r.Command = "get" ->
           LET hit == h.oerr = "" /\ ~h.pr[1].Miss
               isMiss == h.pr # <<>> /\ h.pr[1].Miss
           IN  [m EXCEPT !.getHits = IF hit THEN @ + 1 ELSE @,
                         !.getHitBytes = IF hit THEN @ + e.stat.size ELSE @,
                         !.getMisses = IF isMiss THEN @ + 1 ELSE @,
                         !.getErrors = IF h.oerr # "" THEN @ + 1 ELSE @]
      [] r.Command = "put" ->
           [m EXCEPT !.putBytes = IF h.oerr = "" THEN @ + e.stat.size ELSE @,
                     !.putErrors = IF h.oerr # "" THEN @ + 1 ELSE @]
      [] OTHER -> m

-----------------------------------------------------------------------------
(* Run *)

\* A session is explored in one of two scopes. "single": any server, one
\* request of any shape, any answer of the hooks and of the file system.
\* "session": the server and the hooks of TestServer, up to MaxDecoded
\* requests drawn from the test's program, in any order and interleaving.
Init ==
    /\ scope \in {"single", "session"}
    /\ s \in IF scope = "single" THEN Servers
             ELSE {srv \in Servers : srv.Get /\ srv.Put /\ srv.Close}
    /\ pc = "banner"
    /\ req = <<>>
    /\ xerr = "running"
    /\ nread = 0
    /\ last = <<>>
    /\ tasks = <<>>
    /\ emu = FALSE
    /\ wrbuf = <<>>
    /\ wrerr = FALSE
    /\ out = <<>>
    /\ metrics = NoMetrics
    /\ fs = <<>>
    /\ fs0 = <<>>
    /\ calls = <<>>

banner == [progResponse EXCEPT !.KnownCommands = commands(s)]

\* encode(&progResponse{ID: 0, KnownCommands: s.commands()})
BannerLock ==
    /\ pc = "banner"
    /\ Lock
    /\ pc' = "bannerEncode"
    /\ UNCHANGED <<dirVars, metrics, scope, s, req, xerr, nread, last, tasks, wrbuf, wrerr, out>>

BannerEncode ==
    /\ pc = "bannerEncode"
    /\ Encode(banner)
    /\ pc' = IF wrerr THEN "done" ELSE "bannerFlush"
    /\ xerr' = IF wrerr THEN "write server init" ELSE xerr
    /\ UNCHANGED <<dirVars, metrics, scope, s, req, nread, last, tasks>>

BannerFlush ==
    /\ pc = "bannerFlush"
    /\ \E ok \in BOOLEAN :
          /\ Flush(ok)
          /\ pc' = IF ok THEN "decode" ELSE "done"
          /\ xerr' = IF ok THEN xerr ELSE "write server init"
    /\ UNCHANGED <<dirVars, metrics, scope, s, req, nread, last, tasks>>

DecodeBodyForAnyCommand ==
    /\ pc = "decode"
    /\ \E v \in WireValues :
          LET d == DecodeRequest(v) IN
          /\ nread' = nread + 1
          /\ last' = [at |-> "request", v |-> v.kind]
          /\ IF d.err = "EOF"
               THEN pc' = "wait" /\ xerr' = "nil" /\ req' = <<>>
             ELSE IF d.err # ""
               THEN pc' = "wait" /\ xerr' = d.err /\ req' = <<>>
             ELSE /\ req' = <<d.r>>
                  /\ xerr' = xerr
                  /\ pc' = IF d.r.BodySize > 0
                             THEN "body" ELSE "run"
    /\ UNCHANGED <<dirVars, metrics, scope, s, tasks, emu, wrbuf, wrerr, out>>

\* One dec.Decode(&req) of the loop, up to the point where the request
\* either waits for its body or is ready to be started.
Decode ==
    /\ pc = "decode"
    /\ \E v \in WireValues :
          LET d == DecodeRequest(v) IN
          /\ nread' = nread + 1
          /\ last' = [at |-> "request", v |-> v.kind]
          /\ IF d.err = "EOF"
               THEN pc' = "wait" /\ xerr' = "nil" /\ req' = <<>>
             ELSE IF d.err # ""
               THEN pc' = "wait" /\ xerr' = d.err /\ req' = <<>>
             ELSE /\ req' = <<d.r>>
                  /\ xerr' = xerr
                  /\ pc' = IF d.r.Command = "put" /\ d.r.BodySize > 0
                             THEN "body" ELSE "run"
    /\ UNCHANGED <<dirVars, metrics, scope, s, tasks, emu, wrbuf, wrerr, out>>

BodyWithoutLengthCheck ==
    /\ pc = "body"
    /\ \E v \in WireValues :
          LET d == DecodeBody(v) IN
          /\ nread' = nread + 1
          /\ last' = [at |-> "body", v |-> d]
          /\ IF d.err # ""
               THEN pc' = "wait" /\ xerr' = "decode body" /\ req' = <<>>
             ELSE /\ pc' = "run"
                  /\ xerr' = xerr
                  /\ req' = <<[req[1] EXCEPT !.Body = <<d.len>>]>>
          /\ metrics' = IF pc' = "run"
                          THEN [metrics EXCEPT !.putBytes = @ + req[1].BodySize]
                          ELSE metrics
    /\ UNCHANGED <<dirVars, scope, s, tasks, emu, wrbuf, wrerr, out>>

\* dec.Decode(&body) and the length check of a put with a body.
Body ==
    /\ pc = "body"
    /\ \E v \in WireValues :
          LET d == DecodeBody(v) IN
          /\ nread' = nread + 1
          /\ last' = [at |-> "body", v |-> d]
          /\ IF d.err # ""
               THEN pc' = "wait" /\ xerr' = "decode body" /\ req' = <<>>
             ELSE IF d.len # req[1].BodySize
               THEN pc' = "wait" /\ xerr' = "body size" /\ req' = <<>>
             ELSE /\ pc' = "run"
                  /\ xerr' = xerr
                  /\ req' = <<[req[1] EXCEPT !.Body = <<d.len>>]>>
          /\ metrics' = IF pc' = "run"
                          THEN [metrics EXCEPT !.putBytes = @ + req[1].BodySize]
                          ELSE metrics
    /\ UNCHANGED <<dirVars, scope, s, tasks, emu, wrbuf, wrerr, out>>

\* The tasks of the group that have not returned.
Active == {i \in 1..Len(tasks) : tasks[i].pc # "done"}

StartAfterPrevious ==
    /\ pc = "run"
    /\ Active = {}
    /\ tasks' = Append(tasks, [req |-> req[1], pc |-> "handle", env |-> <<>>,
                               rsp |-> <<>>, werr |-> FALSE])
    /\ req' = <<>>
    /\ pc' = "decode"
    /\ UNCHANGED <<dirVars, metrics, scope, s, xerr, nread, last, emu, wrbuf, wrerr, out>>

\* run(task): blocks until fewer than maxRequests tasks are active, then
\* starts the task on its own goroutine.
Start ==
    /\ pc = "run"
    /\ Cardinality(Active) < maxRequests(s)
    /\ tasks' = Append(tasks, [req |-> req[1], pc |-> "handle", env |-> <<>>,
                               rsp |-> <<>>, werr |-> FALSE])
    /\ req' = <<>>
    /\ pc' = "decode"
    /\ UNCHANGED <<dirVars, metrics, scope, s, xerr, nread, last, emu, wrbuf, wrerr, out>>

\* The start of handleRequest on a get or a put: s.getRequests.Add(1),
\* s.putRequests.Add(1).
CountRequest(i) ==
    /\ i \in 1..Len(tasks)
    /\ tasks[i].pc = "handle" /\ tasks[i].req.Command \in {"get", "put"}
    /\ metrics' = Requested(metrics, tasks[i].req)
    /\ tasks' = [tasks EXCEPT ![i].pc = "hook"]
    /\ UNCHANGED <<dirVars, scope, s, pc, req, xerr, nread, last, emu, wrbuf, wrerr, out>>

\* rsp, err := s.handleRequest(runCtx, &req), from the call of the hook for
\* a get or a put, and the choice of the response.
Handle(i) ==
    /\ i \in 1..Len(tasks)
    /\ tasks[i].pc = IF tasks[i].req.Command \in {"get", "put"} THEN "hook" ELSE "handle"
    /\ \E e \in Envs(s, tasks[i].req) :
          /\ tasks' = [tasks EXCEPT
                         ![i].env = <<e>>,
                         ![i].rsp = <<taskResponse(tasks[i].req,
                                        handleRequest(s, tasks[i].req, e))>>,
                         ![i].pc = "lock"]
          /\ metrics' = Returned(metrics, tasks[i].req, e,
                                 handleRequest(s, tasks[i].req, e))
    /\ UNCHANGED <<dirVars, scope, s, pc, req, xerr, nread, last, emu, wrbuf, wrerr, out>>

\* encode(rsp) of a task, in three steps; the task returns after the last
\* and frees its slot of the group.
TaskLock(i) ==
    /\ i \in 1..Len(tasks)
    /\ tasks[i].pc = "lock"
    /\ Lock
    /\ tasks' = [tasks EXCEPT ![i].pc = "encode"]
    /\ UNCHANGED <<dirVars, metrics, scope, s, pc, req, xerr, nread, last, wrbuf, wrerr, out>>

TaskEncode(i) ==
    /\ i \in 1..Len(tasks)
    /\ tasks[i].pc = "encode"
    /\ Encode(tasks[i].rsp[1])
    /\ tasks' = IF wrerr
                  THEN [tasks EXCEPT ![i].pc = "done", ![i].werr = TRUE]
                  ELSE [tasks EXCEPT ![i].pc = "flush"]
    /\ UNCHANGED <<dirVars, metrics, scope, s, pc, req, xerr, nread, last>>

TaskFlush(i) ==
    /\ i \in 1..Len(tasks)
    /\ tasks[i].pc = "flush"
    /\ \E ok \in BOOLEAN :
          /\ Flush(ok)
          /\ tasks' = [tasks EXCEPT ![i].pc = "done", ![i].werr = ~ok]
    /\ UNCHANGED <<dirVars, metrics, scope, s, pc, req, xerr, nread, last>>

WaitWithoutJoin ==
    /\ pc = "wait"
    /\ pc' = "done"
    /\ UNCHANGED <<dirVars, metrics, scope, s, req, xerr, nread, last, tasks, emu, wrbuf, wrerr, out>>

\* The deferred g.Wait(): Run returns once every task of the group has.
Wait ==
    /\ pc = "wait"
    /\ Active = {}
    /\ pc' = "done"
    /\ UNCHANGED <<dirVars, metrics, scope, s, req, xerr, nread, last, tasks, emu, wrbuf, wrerr, out>>

Task(i) ==
    CountRequest(i) \/ Handle(i) \/ TaskLock(i) \/ TaskEncode(i) \/ TaskFlush(i)

Next ==
    \/ BannerLock
    \/ BannerEncode
    \/ BannerFlush
    \/ Decode
    \/ Body
    \/ Start
    \/ Wait
    \/ \E i \in 1..MaxDecoded : Task(i)

Spec == Init /\ [][Next]_vars

\* The fairness the scheduling of the code guarantees: a goroutine that can
\* take a step takes it, a goroutine waiting for the mutex gets it, hooks
\* return. Nothing is assumed about the peer: Decode and Body wait for input.
Fairness ==
    /\ WF_vars(BannerLock) /\ WF_vars(BannerEncode) /\ WF_vars(BannerFlush)
    /\ WF_vars(Start) /\ WF_vars(Wait)
    /\ \A i \in 1..MaxDecoded :
          /\ WF_vars(CountRequest(i)) /\ WF_vars(Handle(i)) /\ SF_vars(TaskLock(i))
          /\ WF_vars(TaskEncode(i)) /\ WF_vars(TaskFlush(i))

FairSpec == Init /\ [][Next]_vars /\ Fairness

-----------------------------------------------------------------------------
(* cachedir: the text of an action file, and the layout of the tree *)

\* Largest age threshold given to PruneEntries.
MaxAge == 1

\* The time of the session: files left by earlier sessions are older.
Now == MaxAge + 1

Digits == <<"0", "1", "2", "3", "4", "5", "6", "7", "8", "9">>
Space == {" ", "\n", "\t"}

\* The %d verb of fmt.Fprintf, for a size (never negative).
RECURSIVE FormatInt(_)
FormatInt(n) ==
    IF n < 10 THEN <<Digits[n + 1]>>
    ELSE FormatInt(n \div 10) \o <<Digits[(n % 10) + 1]>>

\* fmt.Fprintf(f, "%s %d\n", objectID, size)
ActionText(objectID, size) == objectID \o <<" ">> \o FormatInt(size) \o <<"\n">>

\* strings.Fields(text): the maximal runs of non-space characters.
RECURSIVE FieldsFrom(_, _, _)
FieldsFrom(text, i, cur) ==
    IF i > Len(text)
      THEN IF cur = <<>> THEN <<>> ELSE <<cur>>
    ELSE IF text[i] \in Space
      THEN (IF cur = <<>> THEN <<>> ELSE <<cur>>) \o FieldsFrom(text, i + 1, <<>>)
    ELSE FieldsFrom(text, i + 1, Append(cur, text[i]))
Fields(text) == FieldsFrom(text, 1, <<>>)

DigitValue(c) == CHOOSE v \in 0..9 : Digits[v + 1] = c

RECURSIVE DigitsValue(_, _)
DigitsValue(ds, acc) ==
    IF ds = <<>> THEN acc
    ELSE DigitsValue(Tail(ds), 10 * acc + DigitValue(Head(ds)))

ParseIntUnchecked(f) == [n |-> 0, err |-> ""]

\* strconv.ParseInt(f, 10, 64): an optional sign, then one decimal digit at
\* least and nothing else. The sizes of the model are far from the 64-bit
\* range. On an error the value is 0.
ParseInt(f) ==
    LET signed == f # <<>> /\ Head(f) \in {"+", "-"}
        ds == IF signed THEN Tail(f) ELSE f
        ok == ds # <<>> /\ \A k \in 1..Len(ds) : \E v \in 0..9 : Digits[v + 1] = ds[k]
    IN  IF ~ok THEN [n |-> 0, err |-> "invalid syntax"]
        ELSE [n |-> IF signed /\ Head(f) = "-" THEN 0 - DigitsValue(ds, 0)
                    ELSE DigitsValue(ds, 0),
              err |-> ""]

\* d.actionPath(id), d.objectPath(id): <dir>/<kind>/<id[:2]>/<id>
actionPath(id) == [kind |-> "action", shard |-> SubSeq(id, 1, 2), base |-> id]
objectPath(id) == [kind |-> "object", shard |-> SubSeq(id, 1, 2), base |-> id]

\* id[:2] in actionPath and objectPath panics (slice bounds out of range)
\* when the id has fewer than two bytes.
SlicePanics(id) == Len(id) < 2

\* d.idFromPath(kind, path)
idFromPath(kind, path) == IF path.kind # kind THEN <<>> ELSE path.base

-----------------------------------------------------------------------------
(* cachedir: the files of the tree *)

\* The action ids and the object ids of the calls.
DirActions == {<<"0", "3">>, <<"0", "4", "a">>}
DirObjects == {<<"0", "b", "1", "e">>, <<"c", "7">>}

\* The bodies of the objects: up to MaxBody bytes, in two variants.
BodyOf(c, n) == [k \in 1..n |-> c]
Bodies == {BodyOf(c, n) : c \in {"x", "y"}, n \in 0..MaxBody}

\* The paths of the tree the calls can name.
Paths == {actionPath(a) : a \in DirActions} \cup {objectPath(o) : o \in DirObjects}

\* What is at a path: nothing, a directory, or a regular file with its
\* content and its modification time.
NoFile == [kind |-> "none", data |-> <<>>, mtime |-> 0]
Directory == [kind |-> "dir", data |-> <<>>, mtime |-> 0]
RegularFile(data, mtime) == [kind |-> "file", data |-> data, mtime |-> mtime]

EmptyTree == [p \in Paths |-> NoFile]

\* The texts an action file may hold that Dir did not write.
ForeignTexts ==
    {<<>>, <<"c", "7">>, <<"c", "7", " ", "x">>, <<"c", "7", " ", "1", " ", "z">>,
     <<"c", "7", " ", "-", "1">>}

\* The trees an earlier session may have left, explored with calls of Get
\* and Put: nothing; a record of action 03 for object c7 and, or not, an
\* object file of any body; something else than a record at the path of
\* action 03.
StoreTrees ==
    {EmptyTree}
    \cup {[EmptyTree EXCEPT
             ![actionPath(<<"0", "3">>)] = RegularFile(ActionText(<<"c", "7">>, n), 0),
             ![objectPath(<<"c", "7">>)] = f] :
           n \in 0..MaxBody,
           f \in {NoFile} \cup {RegularFile(b, 0) : b \in Bodies}}
    \cup {[EmptyTree EXCEPT
             ![actionPath(<<"0", "3">>)] = f,
             ![objectPath(<<"c", "7">>)] = RegularFile(<<>>, 0)] :
           f \in {Directory} \cup {RegularFile(x, 0) : x \in ForeignTexts}}

\* The trees explored with PruneEntries: each action has no record or a
\* record, of any age up to Now, for one of the objects; each object has no
\* file or a file of one byte.
PruneTrees ==
    {[p \in Paths |->
        IF p.kind = "action" THEN ra[p.base] ELSE ro[p.base]] :
       ra \in [DirActions ->
                 {NoFile} \cup {RegularFile(ActionText(o, 1), m) :
                                  o \in DirObjects, m \in (Now - MaxAge - 1)..(Now - MaxAge)}],
       ro \in [DirObjects -> {NoFile, RegularFile(<<"x">>, 0)}]}

\* The trees explored with a Put racing a pass: action 03 has no record or
\* a record, of any age up to Now, for one of the objects; each object has
\* no file or a file of one byte.
RaceTrees ==
    {t \in PruneTrees : t[actionPath(<<"0", "4", "a">>)] = NoFile}

\* The trees explored with PruneEntries on a damaged store: a tree of
\* PruneTrees in which something else than a record is at the path of one
\* action.
DamagedTrees ==
    {[t EXCEPT ![actionPath(a)] = RegularFile(x, 0)] :
       t \in PruneTrees, a \in DirActions, x \in ForeignTexts}

-----------------------------------------------------------------------------
(* cachedir: the calls *)

\* Number of calls of the Dir made in one modelled session.
MaxCalls == 2

\* The modification time TestDir asks for, before every time of the model.
testTime == -1

\* The zero Stats.
Stats == [Actions |-> 0, ActionsPruned |-> 0, Objects |-> 0, ObjectsPruned |-> 0,
          BytesPruned |-> 0]

\* A call as it starts. modTime is <<>> for the zero time; res is <<>> until
\* the call returns; removeFailed tells that an os.Remove of the sweep failed;
\* tree is the tree a pass started on; done lists the calls that had returned
\* when this one started.
Call(op, a, o, body, modTime, age) ==
    [op |-> op, ActionID |-> a, ObjectID |-> o, Body |-> body, Size |-> Len(body),
     ModTime |-> modTime, age |-> age,
     pc |-> CASE op = "get" -> "readAction"
              [] op = "put" -> "writeObject"
              [] op = "prune" -> "mark",
     objectID |-> <<>>, sz |-> 0, skipped |-> FALSE, res |-> <<>>,
     next |-> 1, keepObject |-> {}, s |-> Stats, removeFailed |-> FALSE,
     tree |-> IF op = "prune" THEN fs ELSE <<>>,
     done |-> {j \in 1..Len(calls) : calls[j].pc = "done"}]

\* The calls of a session in which a Put of action 03 races a prune pass or
\* another Put of action 03, and Gets of action 03 follow: MaxCalls calls of
\* Put and PruneEntries, one pass at most, start in any order; a Get starts
\* once a Put has started, and no Put or pass starts after a Get.
RaceCalls ==
    LET ops == {calls[j].op : j \in 1..Len(calls)} IN
    (IF ops \cap {"prune", "get"} = {} /\ Len(calls) < MaxCalls
       THEN {Call("prune", <<>>, <<>>, <<>>, <<>>, age) : age \in 0..MaxAge}
       ELSE {})
    \cup (IF "get" \notin ops /\ Len(calls) < MaxCalls
            THEN {Call("put", <<"0", "3">>, o, BodyOf("x", n), <<>>, 0) :
                    o \in DirObjects, n \in 0..MaxBody}
            ELSE {})
    \cup (IF "put" \in ops
            THEN {Call("get", <<"0", "3">>, <<>>, <<>>, <<>>, 0)}
            ELSE {})

\* The calls of a session whose peer leaves out ids: the server hands the
\* hooks fmt.Sprintf("%x", id), the empty string for an absent or empty id.
AbsentCalls ==
    {Call("get", a, <<>>, <<>>, <<>>, 0) : a \in {<<>>, <<"0", "3">>}}
    \cup {Call("put", a, o, <<"x">>, <<>>, 0) :
            a \in {<<>>, <<"0", "3">>}, o \in {<<>>, <<"c", "7">>}}

\* The calls a session of the scope makes. The gocache.Server gives its puts
\* the zero ModTime.
Calls ==
    IF scope = "race" THEN RaceCalls
    ELSE IF scope = "absent" THEN AbsentCalls
    ELSE IF scope = "damaged"
      THEN {Call("prune", <<>>, <<>>, <<>>, <<>>, age) : age \in 0..MaxAge}
    ELSE IF scope = "store"
      THEN {Call("get", a, <<>>, <<>>, <<>>, 0) : a \in DirActions}
           \cup {Call("put", a, o, b, m, 0) :
                   a \in DirActions, o \in DirObjects, b \in Bodies,
                   m \in {<<>>, <<testTime>>}}
      ELSE {Call("prune", <<>>, <<>>, <<>>, <<>>, age) : age \in 0..MaxAge}
           \cup {Call("put", a, o, <<"x">>, <<>>, 0) :
                   a \in DirActions, o \in DirObjects}
           \cup {Call("get", a, <<>>, <<>>, <<>>, 0) : a \in DirActions}

\* os.Stat(path), os.ReadFile(path): what is at the path.
FileAt(path) == IF path \in DOMAIN fs THEN fs[path] ELSE NoFile

\* d.readActionFile(id, path)
readActionFile(path) ==
    LET f == FileAt(path)
        fields == Fields(f.data)
    IN  IF f.kind = "none" THEN [objectID |-> <<>>, size |-> 0, err |-> "not exist"]
        ELSE IF f.kind = "dir" THEN [objectID |-> <<>>, size |-> 0, err |-> "is a directory"]
        ELSE IF Len(fields) # 2
          THEN [objectID |-> <<>>, size |-> 0, err |-> "invalid action file"]
        ELSE [objectID |-> fields[1], size |-> ParseInt(fields[2]).n,
              err |-> ParseInt(fields[2]).err]

\* The result of a call of Get or Put.
Result(objectID, diskPath, err) ==
    <<[objectID |-> objectID, diskPath |-> diskPath, err |-> err]>>

DirInit ==
    /\ scope \in {"store", "prune", "race", "damaged", "absent"}
    /\ s = [Get |-> TRUE, Put |-> TRUE, Close |-> TRUE, MaxRequests |-> 0]
    /\ pc = "banner"
    /\ req = <<>>
    /\ xerr = "running"
    /\ nread = 0
    /\ last = <<>>
    /\ tasks = <<>>
    /\ emu = FALSE
    /\ wrbuf = <<>>
    /\ wrerr = FALSE
    /\ out = <<>>
    /\ metrics = NoMetrics
    /\ fs \in CASE scope = "store" -> StoreTrees
                [] scope = "prune" -> PruneTrees
                [] scope = "race" -> RaceTrees
                [] scope = "damaged" -> DamagedTrees
                [] scope = "absent" -> {EmptyTree}
    /\ fs0 = fs
    /\ calls = <<>>

runVars == <<scope, s, pc, req, xerr, nread, last, tasks, emu, wrbuf, wrerr, out,
            metrics>>

\* A call has panicked: no task of the server recovers, so the process of
\* the session has ended and nothing runs any more.
Crashed == \E i \in 1..Len(calls) : calls[i].pc = "panic"

\* The number of calls of a session of the scope.
CallLimit ==
    CASE scope = "race" -> MaxCalls + 1
      [] scope = "damaged" -> 1
      [] OTHER -> MaxCalls

\* A caller calls Get, Put or PruneEntries; calls run concurrently.
DirCall ==
    /\ Len(calls) < CallLimit /\ ~Crashed
    /\ \E c \in Calls : calls' = Append(calls, c)
    /\ UNCHANGED <<runVars, fs, fs0>>

\* Dir.Get up to the result of d.readAction(actionID): a miss when the
\* record does not exist, the error when it cannot be read or parsed.
GetReadAction(i) ==
    /\ i \in 1..Len(calls) /\ ~Crashed
    /\ calls[i].op = "get" /\ calls[i].pc = "readAction"
    /\ LET r == readActionFile(actionPath(calls[i].ActionID)) IN
          calls' = [calls EXCEPT
             ![i] = IF SlicePanics(calls[i].ActionID)
                      THEN [@ EXCEPT !.pc = "panic"]
                    ELSE IF r.err = "not exist"
                      THEN [@ EXCEPT !.pc = "done", !.res = Result(<<>>, <<>>, "")]
                    ELSE IF r.err # ""
                      THEN [@ EXCEPT !.pc = "done", !.res = Result(<<>>, <<>>, r.err)]
                    ELSE [@ EXCEPT !.pc = "stat", !.objectID = r.objectID,
                                   !.sz = r.size]]
    /\ UNCHANGED <<runVars, fs, fs0>>

GetStatAnySize(i) ==
    /\ i \in 1..Len(calls) /\ ~Crashed
    /\ calls[i].op = "get" /\ calls[i].pc = "stat"
    /\ LET diskPath == objectPath(calls[i].objectID)
           fi == FileAt(diskPath)
       IN  calls' = [calls EXCEPT
              ![i].pc = "done",
              ![i].res = IF fi.kind = "none"
                           THEN Result(<<>>, <<>>, "")
                           ELSE Result(calls[i].objectID, <<diskPath>>, "")]
    /\ UNCHANGED <<runVars, fs, fs0>>

GetStatRemovesStale(i) ==
    /\ i \in 1..Len(calls) /\ ~Crashed
    /\ calls[i].op = "get" /\ calls[i].pc = "stat"
    /\ LET diskPath == objectPath(calls[i].objectID)
           fi == FileAt(diskPath)
           miss == fi.kind = "none" \/ Len(fi.data) # calls[i].sz
       IN  /\ calls' = [calls EXCEPT
                 ![i].pc = "done",
                 ![i].res = IF miss
                              THEN Result(<<>>, <<>>, "")
                              ELSE Result(calls[i].objectID, <<diskPath>>, "")]
           /\ fs' = IF miss
                      THEN [fs EXCEPT ![actionPath(calls[i].ActionID)] = NoFile]
                      ELSE fs
    /\ UNCHANGED <<runVars, fs0>>

GetStatMissingIsError(i) ==
    /\ i \in 1..Len(calls) /\ ~Crashed
    /\ calls[i].op = "get" /\ calls[i].pc = "stat"
    /\ LET diskPath == objectPath(calls[i].objectID)
           fi == FileAt(diskPath)
       IN  calls' = [calls EXCEPT
              ![i].pc = "done",
              ![i].res = IF fi.kind = "none"
                           THEN Result(<<>>, <<>>, "stat")
                         ELSE IF Len(fi.data) # calls[i].sz
                           THEN Result(<<>>, <<>>, "")
                           ELSE Result(calls[i].objectID, <<diskPath>>, "")]
    /\ UNCHANGED <<runVars, fs, fs0>>

\* Dir.Get from os.Stat(diskPath) on: a miss unless the object is there
\* with the recorded size.
GetStat(i) ==
    /\ i \in 1..Len(calls) /\ ~Crashed
    /\ calls[i].op = "get" /\ calls[i].pc = "stat"
    /\ LET diskPath == objectPath(calls[i].objectID)
           fi == FileAt(diskPath)
       IN  calls' = [calls EXCEPT
              ![i].pc = "done",
              ![i].res = IF fi.kind = "none" \/ Len(fi.data) # calls[i].sz
                           THEN Result(<<>>, <<>>, "")
                           ELSE Result(calls[i].objectID, <<diskPath>>, "")]
    /\ UNCHANGED <<runVars, fs, fs0>>

PresentAnySize(fi, size) == fi.kind = "file"

PresentNever(fi, size) == FALSE

\* The test of d.writeObject on the result of os.Stat(path): a regular file
\* of the expected size is there.
Present(fi, size) == fi.kind = "file" /\ Len(fi.data) = size

PutWriteObjectInPlace(i) ==
    /\ i \in 1..Len(calls) /\ ~Crashed
    /\ calls[i].op = "put" /\ calls[i].pc = "writeObject"
    /\ ~SlicePanics(calls[i].ObjectID)
    /\ LET path == objectPath(calls[i].ObjectID)
           fi == FileAt(path)
       IN  IF Present(fi, calls[i].Size)
             THEN /\ calls' = [calls EXCEPT ![i].pc = "writeAction",
                                            ![i].skipped = TRUE,
                                            ![i].sz = Len(fi.data)]
                  /\ fs' = fs
             ELSE \E k \in 0..Len(calls[i].Body) :
                    /\ fs' = [fs EXCEPT ![path] =
                                 RegularFile(SubSeq(calls[i].Body, 1, k), Now)]
                    /\ calls' = [calls EXCEPT
                          ![i] = IF k = Len(calls[i].Body)
                                   THEN [@ EXCEPT !.pc = "rename"]
                                   ELSE [@ EXCEPT !.pc = "done",
                                                  !.res = Result(<<>>, <<>>, "write object")]]
    /\ UNCHANGED <<runVars, fs0>>

PutWriteObjectRecordFirst(i) ==
    /\ i \in 1..Len(calls) /\ ~Crashed
    /\ calls[i].op = "put" /\ calls[i].pc = "writeObject"
    /\ ~SlicePanics(calls[i].ObjectID) /\ ~SlicePanics(calls[i].ActionID)
    /\ LET path == objectPath(calls[i].ObjectID)
           fi == FileAt(path)
       IN  /\ fs[actionPath(calls[i].ActionID)].kind # "dir"
           /\ fs' = [fs EXCEPT ![actionPath(calls[i].ActionID)] =
                        RegularFile(ActionText(calls[i].ObjectID, calls[i].Size), Now)]
           /\ IF Present(fi, calls[i].Size)
                THEN calls' = [calls EXCEPT ![i].pc = "writeAction",
                                            ![i].skipped = TRUE,
                                            ![i].sz = Len(fi.data)]
                ELSE \E ok \in BOOLEAN :
                       calls' = [calls EXCEPT
                          ![i] = IF ok
                                   THEN [@ EXCEPT !.pc = "rename"]
                                   ELSE [@ EXCEPT !.pc = "done",
                                                  !.res = Result(<<>>, <<>>, "write object")]]
    /\ UNCHANGED <<runVars, fs0>>

\* d.writeObject(obj) up to the end of the copy of atomicfile.WriteAll: the
\* object is skipped when a regular file of obj.Size bytes is at its path;
\* else the body is copied to a temporary file of a name of its own, which
\* no other call opens, or the copy fails and Put returns the error.
PutWriteObject(i) ==
    /\ i \in 1..Len(calls) /\ ~Crashed
    /\ calls[i].op = "put" /\ calls[i].pc = "writeObject"
    /\ LET path == objectPath(calls[i].ObjectID)
           fi == FileAt(path)
       IN  IF SlicePanics(calls[i].ObjectID)
             THEN calls' = [calls EXCEPT ![i].pc = "panic"]
           ELSE IF Present(fi, calls[i].Size)
             THEN calls' = [calls EXCEPT ![i].pc = "writeAction",
                                         ![i].skipped = TRUE,
                                         ![i].sz = Len(fi.data)]
             ELSE \E ok \in BOOLEAN :
                    calls' = [calls EXCEPT
                       ![i] = IF ok
                                THEN [@ EXCEPT !.pc = "rename"]
                                ELSE [@ EXCEPT !.pc = "done",
                                               !.res = Result(<<>>, <<>>, "write object")]]
    /\ UNCHANGED <<runVars, fs, fs0>>

\* The end of atomicfile.WriteAll: the temporary file is renamed to the
\* path of the object, replacing what was there.
PutRename(i) ==
    /\ i \in 1..Len(calls) /\ ~Crashed
    /\ calls[i].op = "put" /\ calls[i].pc = "rename"
    /\ fs' = [fs EXCEPT ![objectPath(calls[i].ObjectID)] =
                 RegularFile(calls[i].Body, Now)]
    /\ calls' = [calls EXCEPT
          ![i].sz = Len(calls[i].Body),
          ![i].pc = IF calls[i].ModTime # <<>> THEN "chtimes" ELSE "writeAction"]
    /\ UNCHANGED <<runVars, fs0>>

\* os.Chtimes(path, time.Time{}, obj.ModTime), best-effort.
PutChtimes(i) ==
    /\ i \in 1..Len(calls) /\ ~Crashed
    /\ calls[i].op = "put" /\ calls[i].pc = "chtimes"
    /\ LET path == objectPath(calls[i].ObjectID) IN
          \/ fs[path].kind # "none"
               /\ fs' = [fs EXCEPT ![path].mtime = calls[i].ModTime[1]]
          \/ fs' = fs
    /\ calls' = [calls EXCEPT ![i].pc = "writeAction"]
    /\ UNCHANGED <<runVars, fs0>>

PutWriteActionInPlace(i) ==
    /\ i \in 1..Len(calls) /\ ~Crashed
    /\ calls[i].op = "put" /\ calls[i].pc \in {"writeAction", "writeSize"}
    /\ ~SlicePanics(calls[i].ActionID)
    /\ LET path == objectPath(calls[i].ObjectID)
           old == Fields(fs[actionPath(calls[i].ActionID)].data)
           size == IF calls[i].pc = "writeAction" /\ Len(old) = 2
                     THEN old[2] ELSE FormatInt(calls[i].sz)
       IN  /\ fs[actionPath(calls[i].ActionID)].kind # "dir"
           /\ fs' = [fs EXCEPT ![actionPath(calls[i].ActionID)] =
                        RegularFile(calls[i].ObjectID \o <<" ">> \o size \o <<"\n">>,
                                    Now)]
           /\ calls' = [calls EXCEPT
                 ![i] = IF calls[i].pc = "writeAction"
                          THEN [@ EXCEPT !.pc = "writeSize"]
                          ELSE [@ EXCEPT !.pc = "done",
                                         !.res = Result(<<>>, <<path>>, "")]]
    /\ UNCHANGED <<runVars, fs0>>

\* d.writeAction(obj.ActionID, obj.ObjectID, size): the record is written to
\* a temporary file and renamed to the path of the action, or the write
\* fails, as it does when a directory is at that path; Put returns the path
\* of the object and that error.
PutWriteAction(i) ==
    /\ i \in 1..Len(calls) /\ ~Crashed
    /\ calls[i].op = "put" /\ calls[i].pc = "writeAction"
    /\ LET path == objectPath(calls[i].ObjectID) IN
          IF SlicePanics(calls[i].ActionID)
            THEN calls' = [calls EXCEPT ![i].pc = "panic"] /\ fs' = fs
          ELSE
          \E ok \in IF fs[actionPath(calls[i].ActionID)].kind = "dir"
                      THEN {FALSE} ELSE BOOLEAN :
             /\ fs' = IF ok
                        THEN [fs EXCEPT ![actionPath(calls[i].ActionID)] =
                                RegularFile(ActionText(calls[i].ObjectID, calls[i].sz), Now)]
                        ELSE fs
             /\ calls' = [calls EXCEPT
                   ![i].pc = "done",
                   ![i].res = Result(<<>>, <<path>>, IF ok THEN "" ELSE "write action")]
    /\ UNCHANGED <<runVars, fs0>>

\* The order in which filepath.WalkDir meets the paths of a subdirectory.
ActionWalk == <<actionPath(<<"0", "3">>), actionPath(<<"0", "4", "a">>)>>
ObjectWalk == <<objectPath(<<"0", "b", "1", "e">>), objectPath(<<"c", "7">>)>>

ExpiredLate(f, age) == Now - f.mtime > age + 1

ExpiredAtThreshold(f, age) == Now - f.mtime >= age

\* The test of the mark phase on the modification time of a record: the
\* pass started more than age after it.
Expired(f, age) == Now - f.mtime > age

RetainNothing(keepObject, objID) == keepObject

\* keepObject.Add(objID)
Retain(keepObject, objID) == keepObject \cup {objID}

UnreferencedNever(id, keepObject) == FALSE

\* The test of the sweep phase on the id of an object file.
Unreferenced(id, keepObject) == id # <<>> /\ id \notin keepObject

\* The result of PruneEntries: its Stats and its error.
PruneResult(st, err) == <<[s |-> st, err |-> err]>>

PruneMarkIgnoresErrors(i) ==
    /\ i \in 1..Len(calls) /\ ~Crashed
    /\ calls[i].op = "prune" /\ calls[i].pc = "mark"
    /\ LET c == calls[i]
           path == ActionWalk[c.next]
           f == fs[path]
           r == readActionFile(path)
           pruned == [c.s EXCEPT !.Actions = @ + 1, !.ActionsPruned = @ + 1]
           after == IF c.next = Len(ActionWalk)
                      THEN [c EXCEPT !.pc = "sweep", !.next = 1]
                      ELSE [c EXCEPT !.next = @ + 1]
       IN  IF f.kind # "file"
             THEN calls' = [calls EXCEPT ![i] = after] /\ fs' = fs
           ELSE IF r.err # ""
             THEN calls' = [calls EXCEPT ![i] = after] /\ fs' = fs
           ELSE IF FileAt(objectPath(r.objectID)).kind = "none"
                   \/ Expired(f, c.age)
             THEN \E ok \in BOOLEAN :
                    IF ok
                      THEN /\ fs' = [fs EXCEPT ![path] = NoFile]
                           /\ calls' = [calls EXCEPT ![i] = [after EXCEPT !.s = pruned]]
                      ELSE /\ fs' = fs
                           /\ calls' = [calls EXCEPT ![i] = [after EXCEPT !.s = pruned]]
           ELSE /\ fs' = fs
                /\ calls' = [calls EXCEPT
                      ![i] = [after EXCEPT !.s.Actions = @ + 1,
                                           !.keepObject = Retain(@, r.objectID)]]
    /\ UNCHANGED <<runVars, fs0>>

\* One call of the function WalkDir is given in the mark phase, for the next
\* path under action/, and what follows the walk when it was the last. A
\* record that cannot be read ends the pass with the error; a record whose
\* object is absent, or that was modified more than age before the start, is
\* removed, and a failed removal ends the pass with its error; the object of
\* any other record is kept.
PruneMark(i) ==
    /\ i \in 1..Len(calls) /\ ~Crashed
    /\ calls[i].op = "prune" /\ calls[i].pc = "mark"
    /\ LET c == calls[i]
           path == ActionWalk[c.next]
           f == fs[path]
           r == readActionFile(path)
           pruned == [c.s EXCEPT !.Actions = @ + 1, !.ActionsPruned = @ + 1]
           after == IF c.next = Len(ActionWalk)
                      THEN [c EXCEPT !.pc = "sweep", !.next = 1]
                      ELSE [c EXCEPT !.next = @ + 1]
       IN  IF f.kind # "file"
             THEN calls' = [calls EXCEPT ![i] = after] /\ fs' = fs
           ELSE IF r.err # ""
             THEN /\ calls' = [calls EXCEPT ![i].pc = "done",
                                            ![i].res = PruneResult(c.s, r.err)]
                  /\ fs' = fs
           ELSE IF FileAt(objectPath(r.objectID)).kind = "none"
                   \/ Expired(f, c.age)
             THEN \E ok \in BOOLEAN :
                    IF ok
                      THEN /\ fs' = [fs EXCEPT ![path] = NoFile]
                           /\ calls' = [calls EXCEPT ![i] = [after EXCEPT !.s = pruned]]
                      ELSE /\ fs' = fs
                           /\ calls' = [calls EXCEPT
                                 ![i].pc = "done", ![i].s = pruned,
                                 ![i].res = PruneResult(pruned, "remove")]
           ELSE /\ fs' = fs
                /\ calls' = [calls EXCEPT
                      ![i] = [after EXCEPT !.s.Actions = @ + 1,
                                           !.keepObject = Retain(@, r.objectID)]]
    /\ UNCHANGED <<runVars, fs0>>

PruneSweepAbortsOnFailure(i) ==
    /\ i \in 1..Len(calls) /\ ~Crashed
    /\ calls[i].op = "prune" /\ calls[i].pc = "sweep"
    /\ LET c == calls[i]
           path == ObjectWalk[c.next]
           f == fs[path]
           id == idFromPath("object", path)
           after(st) == IF c.next = Len(ObjectWalk)
                          THEN [c EXCEPT !.pc = "done", !.s = st,
                                         !.res = PruneResult(st, "")]
                          ELSE [c EXCEPT !.next = @ + 1, !.s = st]
       IN  IF f.kind # "file"
             THEN calls' = [calls EXCEPT ![i] = after(c.s)] /\ fs' = fs
           ELSE IF Unreferenced(id, c.keepObject)
             THEN \E ok \in BOOLEAN :
                    LET st == [c.s EXCEPT !.Objects = @ + 1,
                                          !.ObjectsPruned = @ + 1,
                                          !.BytesPruned = @ + Len(f.data)]
                    IN  /\ fs' = IF ok THEN [fs EXCEPT ![path] = NoFile] ELSE fs
                        /\ calls' = [calls EXCEPT
                              ![i] = IF ok THEN after(st)
                                     ELSE [c EXCEPT !.pc = "done", !.s = st,
                                                    !.removeFailed = TRUE,
                                                    !.res = PruneResult(st, "remove")]]
           ELSE /\ calls' = [calls EXCEPT
                      ![i] = after([c.s EXCEPT !.Objects = @ + 1])]
                /\ fs' = fs
    /\ UNCHANGED <<runVars, fs0>>

\* One call of the function WalkDir is given in the sweep phase, for the
\* next path under object/, and the return after the last. An object that is
\* not kept is counted as pruned and removed; a failed removal is ignored.
PruneSweep(i) ==
    /\ i \in 1..Len(calls) /\ ~Crashed
    /\ calls[i].op = "prune" /\ calls[i].pc = "sweep"
    /\ LET c == calls[i]
           path == ObjectWalk[c.next]
           f == fs[path]
           id == idFromPath("object", path)
           after(st) == IF c.next = Len(ObjectWalk)
                          THEN [c EXCEPT !.pc = "done", !.s = st,
                                         !.res = PruneResult(st, "")]
                          ELSE [c EXCEPT !.next = @ + 1, !.s = st]
       IN  IF f.kind # "file"
             THEN calls' = [calls EXCEPT ![i] = after(c.s)] /\ fs' = fs
           ELSE IF Unreferenced(id, c.keepObject)
             THEN \E ok \in BOOLEAN :
                    /\ fs' = IF ok THEN [fs EXCEPT ![path] = NoFile] ELSE fs
                    /\ calls' = [calls EXCEPT
                          ![i] = [after([c.s EXCEPT !.Objects = @ + 1,
                                                    !.ObjectsPruned = @ + 1,
                                                    !.BytesPruned = @ + Len(f.data)])
                                    EXCEPT !.removeFailed = @ \/ ~ok]]
           ELSE /\ calls' = [calls EXCEPT
                      ![i] = after([c.s EXCEPT !.Objects = @ + 1])]
                /\ fs' = fs
    /\ UNCHANGED <<runVars, fs0>>

DirNext ==
    \/ DirCall
    \/ \E i \in 1..(MaxCalls + 1) :
          \/ GetReadAction(i)
          \/ GetStat(i)
          \/ PutWriteObject(i)
          \/ PutRename(i)
          \/ PutChtimes(i)
          \/ PutWriteAction(i)
          \/ PruneMark(i)
          \/ PruneSweep(i)

DirSpec == DirInit /\ [][DirNext]_vars

-----------------------------------------------------------------------------
(* Properties *)

\* The places of out where a response after the banner begins, and where one
\* is complete.
Heads == {j \in 2..Len(out) : out[j].part = "head"}
Tails == {j \in 3..Len(out) : out[j].part = "tail"}

\* The tasks started for requests of id x, and those that wrote their response.
TasksOf(x) == {i \in 1..Len(tasks) : tasks[i].req.ID = x}
WrittenOf(x) == {i \in TasksOf(x) : tasks[i].pc = "done" /\ ~tasks[i].werr}

\* The ceiling the Server's fields configure.
Ceiling == IF s.MaxRequests > 0 THEN s.MaxRequests ELSE NumCPU

\* C1: every response written after the banner carries the id of a request
\* decoded before it, and an id is on no more responses than requests carried
\* it: with distinct request ids, no id is on more than one response.
C1_ResponseIdsMatchRequests ==
    \A j \in Heads :
       /\ out[j].msg.ID \in {tasks[i].req.ID : i \in 1..Len(tasks)}
       /\ Cardinality({k \in Heads : out[k].msg.ID = out[j].msg.ID})
             <= Cardinality(TasksOf(out[j].msg.ID))

\* C1 witness: two requests of distinct ids, answered in the reverse of their
\* decode order.
C1_Witness ==
    /\ Len(tasks) = 2 /\ tasks[1].req.ID # tasks[2].req.ID
    /\ Len(out) = 6
    /\ out[3].msg.ID = tasks[2].req.ID
    /\ out[5].msg.ID = tasks[1].req.ID

\* C3: Run has not returned while a started task has not finished and, unless
\* the output has failed, written its response.
C3_RunWaitsForTasks ==
    pc = "done" =>
       \A i \in 1..Len(tasks) :
          /\ tasks[i].pc = "done"
          /\ tasks[i].werr
             \/ Cardinality({j \in Tails : out[j].msg.ID = tasks[i].req.ID})
                  = Cardinality(WrittenOf(tasks[i].req.ID))

\* C3 witness: Run has returned a fatal framing error and the request
\* accepted before it is answered.
C3_Witness ==
    /\ pc = "done" /\ xerr = "body size" /\ ~wrerr
    /\ Len(tasks) = 1 /\ Len(out) = 4

\* C4: the tasks holding a slot of the group never exceed the configured
\* ceiling, and while they fill it no task is started and Run stays blocked
\* in run().
C4_BoundedConcurrency ==
    /\ [](Cardinality(Active) <= Ceiling)
    /\ [][Cardinality(Active) = Ceiling =>
             (Len(tasks') = Len(tasks) /\ (pc = "run" => pc' = "run"))]_vars

\* C4 witness: the ceiling is saturated and the decode loop is blocked with
\* a decoded request in hand.
C4_Witness == pc = "run" /\ Cardinality(Active) = Ceiling

\* C5: nothing is read from the input before the banner is written whole; the
\* first message of the output has id 0 and lists exactly the commands whose
\* hook is set, each once.
C5_BannerFirst ==
    /\ nread > 0 => Len(out) >= 2
    /\ Len(out) >= 1 =>
          LET m == out[1].msg
              known == {m.KnownCommands[k] : k \in 1..Len(m.KnownCommands)}
          IN  /\ out[1].part = "head"
              /\ m.ID = 0
              /\ Len(m.KnownCommands) = Cardinality(known)
              /\ known = {c \in {"get", "put", "close"} :
                             \/ c = "get" /\ s.Get
                             \/ c = "put" /\ s.Put
                             \/ c = "close" /\ s.Close}
    /\ Len(out) >= 2 => (out[2].part = "tail" /\ out[2].msg = out[1].msg)

\* C5 witness: a server with Get and Close only has announced them and has
\* then decoded a request.
C5_Witness ==
    /\ s.Get /\ ~s.Put /\ s.Close
    /\ nread > 0 /\ Len(tasks) = 1
    /\ out[1].msg.KnownCommands = <<"get", "close">>

\* C2: under Fairness, every request handed to the group is eventually done
\* and, unless a write to the output failed, answered; and at all times the
\* complete responses carrying an id are exactly as many as the tasks of that
\* id that wrote theirs, so none is answered twice.
C2_EveryRequestAnswered ==
    /\ \A i \in 1..MaxDecoded :
          (Len(tasks) >= i) ~>
             (Len(tasks) >= i /\ tasks[i].pc = "done"
              /\ (wrerr \/ \E j \in Tails : out[j].msg = tasks[i].rsp[1]))
    /\ [](\A x \in {tasks[i].req.ID : i \in 1..Len(tasks)} :
             ~wrerr => Cardinality({j \in Tails : out[j].msg.ID = x})
                          = Cardinality(WrittenOf(x)))

\* C2 witness: the loop has ended on a fatal decode error and the two requests
\* accepted before it are answered.
C2_Witness ==
    /\ xerr = "decode error" /\ ~wrerr
    /\ Len(tasks) = 2 /\ tasks[1].req.ID # tasks[2].req.ID
    /\ \A i \in 1..2 : tasks[i].pc = "done"
    /\ Len(out) = 6

\* The request-scoped failures: an unknown command, an error of the get or
\* put hook, a put without a put hook, a put whose stored file has not the
\* declared size, an object id of the get hook that is not hexadecimal.
RequestFailure(srv, r, e) ==
    \/ r.Command \notin {"get", "put", "close"}
    \/ r.Command = "get" /\ srv.Get /\ e.get.err
    \/ r.Command = "put" /\ srv.Put /\ e.put.err
    \/ r.Command = "put" /\ ~srv.Put
    \/ r.Command = "put" /\ srv.Put /\ ~e.put.err
         /\ e.stat.err = "" /\ e.stat.size # r.BodySize
    \/ r.Command = "get" /\ srv.Get /\ ~e.get.err
         /\ e.get.objectID # <<>> /\ ~IsHex(e.get.objectID)

\* C6: the response of a request that failed carries the request's id and a
\* non-empty err; a handler that returns changes neither Run's position nor
\* its result; and the loop can decode on whatever the handlers returned.
C6_RequestErrorsContained ==
    /\ [](\A i \in 1..Len(tasks) :
             (tasks[i].env # <<>> /\ RequestFailure(s, tasks[i].req, tasks[i].env[1]))
                => /\ tasks[i].rsp[1].ID = tasks[i].req.ID
                   /\ tasks[i].rsp[1].Err # "")
    /\ [](pc = "decode" => ENABLED Decode)
    /\ [][(\E i \in 1..Len(tasks) : tasks[i].env = <<>> /\ tasks'[i].env # <<>>)
             => (pc' = pc /\ xerr' = xerr /\ req' = req)]_vars

\* C6 witness: the first request failed, the second was decoded, handled and
\* answered, and Run returned nil on end of input.
C6_Witness ==
    /\ pc = "done" /\ xerr = "nil" /\ ~wrerr
    /\ Len(tasks) = 2 /\ Len(out) = 6
    /\ RequestFailure(s, tasks[1].req, tasks[1].env[1])
    /\ out[3].msg = tasks[1].rsp[1] /\ out[3].msg.Err # ""
    /\ out[5].msg = tasks[2].rsp[1] /\ out[5].msg.Err = ""

\* C7: when the value after a put with bodySize > 0 fails to decode or has
\* not bodySize bytes, Run leaves the loop with an error and starts no task
\* for that put; once out of the loop Run decodes nothing, starts nothing and
\* keeps its result; and the output never holds more responses than tasks.
C7_BodyMismatchIsFatal ==
    /\ [][(pc = "body" /\ nread' # nread
           /\ (last'.v.err # "" \/ last'.v.len # req[1].BodySize))
             => (pc' = "wait" /\ xerr' \notin {"running", "nil"}
                 /\ tasks' = tasks)]_vars
    /\ [][(pc = "wait" \/ pc = "done")
             => (pc' \in {"wait", "done"} /\ nread' = nread
                 /\ Len(tasks') = Len(tasks) /\ xerr' = xerr)]_vars
    /\ [](Cardinality(Heads) <= Len(tasks))

\* C7 witness: Run has returned after a body of the wrong length; the put it
\* belonged to was not started and only the earlier request is answered.
C7_Witness ==
    /\ pc = "done" /\ xerr = "body size"
    /\ last.at = "body" /\ last.v.err = ""
    /\ Len(tasks) = 1 /\ Len(out) = 4

\* C8: Run's result is nil exactly when the loop ended on a clean end of
\* input where a request was expected; ended on any other failed decode, its
\* result is that error; and no step of a task changes it.
C8_RunResult ==
    /\ [](xerr = "nil" <=>
             (pc \in {"wait", "done"} /\ last # <<>>
              /\ last.at = "request" /\ last.v = "eof"))
    /\ []((pc \in {"wait", "done"} /\ last # <<>>
           /\ ~(last.at = "request" /\ last.v = "eof"))
             => xerr \in {"decode error", "decode body", "body size"})
    /\ [][(Len(tasks') = Len(tasks) /\ tasks' # tasks) => xerr' = xerr]_vars

\* C8 witness: Run returned nil although a request was answered with an error.
C8_Witness ==
    /\ pc = "done" /\ xerr = "nil"
    /\ \E i \in 1..Len(tasks) : tasks[i].rsp # <<>> /\ tasks[i].rsp[1].Err # ""

\* The writers inside the section of encode that emu guards.
InEncode ==
    {i \in 1..Len(tasks) : tasks[i].pc \in {"encode", "flush"}}
    \cup (IF pc \in {"bannerEncode", "bannerFlush"} THEN {0} ELSE {})

\* C9: at most one writer is inside encode; and while no write has failed,
\* the output is a sequence of whole messages and nothing stays buffered when
\* no writer is inside.
C9_WritersExclusive ==
    /\ Cardinality(InEncode) <= 1
    /\ ~wrerr =>
          /\ Len(out) % 2 = 0
          /\ \A j \in 1..Len(out) :
                j % 2 = 1 => /\ out[j].part = "head"
                             /\ out[j + 1].part = "tail"
                             /\ out[j + 1].msg = out[j].msg
          /\ InEncode = {} => wrbuf = <<>>

\* C9 witness: one task is flushing its response while another waits for
\* the mutex.
C9_Witness ==
    /\ Len(tasks) = 2 /\ emu
    /\ tasks[1].pc = "lock" /\ tasks[2].pc = "flush"

\* C10: Run waits only for input or for a free slot: with a slot free it can
\* start the request in hand, and at the top of the loop it can decode,
\* wherever the earlier tasks are.
C10_LoopWaitsOnlyForSlot ==
    /\ (pc = "run" /\ Cardinality(Active) < Ceiling) => ENABLED Start
    /\ pc = "decode" => ENABLED Decode

\* C10 witness: the second request is answered while the handler of the
\* first has not returned.
C10_Witness ==
    /\ Len(tasks) = 2
    /\ tasks[1].pc = "handle"
    /\ tasks[2].pc = "done" /\ ~tasks[2].werr
    /\ Len(out) = 4 /\ out[3].msg = tasks[2].rsp[1]

-----------------------------------------------------------------------------
(* Properties of the disk store *)

\* Call i had returned when call j started.
Before(i, j) == i \in calls[j].done

\* The puts and the gets that have returned, and the passes.
PutsDone == {i \in 1..Len(calls) : calls[i].op = "put" /\ calls[i].pc = "done"}
GetsDone == {i \in 1..Len(calls) : calls[i].op = "get" /\ calls[i].pc = "done"}
Passes == {i \in 1..Len(calls) : calls[i].op = "prune"}

\* Get g started after put p of the same action had returned with success,
\* and every pass and every other put on the action or the object of p had
\* returned before p started.
GetAfterPut(p, g) ==
    /\ p \in PutsDone /\ g \in GetsDone
    /\ calls[p].res[1].err = ""
    /\ calls[g].ActionID = calls[p].ActionID
    /\ Before(p, g)
    /\ \A q \in (1..Len(calls)) \ {p, g} :
          (\/ calls[q].op = "prune"
           \/ calls[q].op = "put"
                /\ (calls[q].ActionID = calls[p].ActionID
                    \/ calls[q].ObjectID = calls[p].ObjectID))
             => Before(q, p)

\* The hit of object o.
Hit(o) == Result(o, <<objectPath(o)>>, "")

\* C11 as stated: a get after a successful put of (a, o, n, b), nothing in
\* between, returns o and the path of the object file of o, and the file
\* holds exactly the n bytes of b.
C11_RoundTripAsStated ==
    \A p \in PutsDone, g \in GetsDone :
       GetAfterPut(p, g) =>
          /\ calls[g].res = Hit(calls[p].ObjectID)
          /\ fs[objectPath(calls[p].ObjectID)].data = calls[p].Body

\* C11 amended: a get after a successful put of (a, o, n, b), nothing in
\* between, returns o and the path of the object file of o, a regular file
\* of n bytes; it holds the bytes of b when Put wrote the object, and is the
\* file Put found there when Put found a regular file of n bytes.
C11_RoundTrip ==
    \A p \in PutsDone, g \in GetsDone :
       GetAfterPut(p, g) =>
          LET f == fs[objectPath(calls[p].ObjectID)] IN
          /\ calls[g].res = Hit(calls[p].ObjectID)
          /\ f.kind = "file" /\ Len(f.data) = calls[p].Size
          /\ ~calls[p].skipped => f.data = calls[p].Body
          /\ calls[p].skipped =>
                (fs0[objectPath(calls[p].ObjectID)] = f
                 \/ \E q \in PutsDone \ {p} :
                       calls[q].ObjectID = calls[p].ObjectID /\ f.data = calls[q].Body)

\* C11 witness: a put wrote an object of one byte at least over a file of
\* another size, and the get after it hit.
C11_Witness ==
    \E p \in PutsDone, g \in GetsDone :
       /\ GetAfterPut(p, g)
       /\ ~calls[p].skipped /\ calls[p].Size > 0
       /\ fs0[objectPath(calls[p].ObjectID)].kind = "file"
       /\ calls[g].res = Hit(calls[p].ObjectID)

\* The miss of Dir.Get.
Miss == Result(<<>>, <<>>, "")

\* No call but Get has been made: the tree is as the session found it.
GetsOnly == \A j \in 1..Len(calls) : calls[j].op = "get"

\* The record the session found for action a names object o with size n.
Names(a, o, n) ==
    /\ fs0[actionPath(a)].kind = "file"
    /\ Fields(fs0[actionPath(a)].data) = <<o, FormatInt(n)>>

\* The object file of o is there with n bytes.
Holds(o, n) ==
    fs[objectPath(o)].kind = "file" /\ Len(fs[objectPath(o)].data) = n

\* C14: a Get on a tree no other call changes returns the miss when the
\* action has no record, when the object its record names is missing, and
\* when that object has not the recorded size; it returns the hit of the
\* recorded object when the object file is there with the recorded size, and
\* a hit in no other state. In any interleaving with other calls, a Get of an
\* action that had no record or a record of Dir returns no error.
C14_MissNeverError ==
    /\ \A g \in GetsDone :
          LET a == calls[g].ActionID IN
          GetsOnly =>
             /\ fs0[actionPath(a)].kind = "none" => calls[g].res = Miss
             /\ \A o \in DirObjects, n \in 0..MaxBody :
                   Names(a, o, n) =>
                      calls[g].res = IF Holds(o, n) THEN Hit(o) ELSE Miss
             /\ calls[g].res[1].objectID # <<>> =>
                   \E o \in DirObjects, n \in 0..MaxBody :
                      Names(a, o, n) /\ Holds(o, n) /\ calls[g].res = Hit(o)
    /\ \A g \in GetsDone :
          LET a == calls[g].ActionID IN
          (\/ fs0[actionPath(a)].kind = "none"
           \/ \E o \in DirObjects, n \in 0..MaxBody : Names(a, o, n))
             => calls[g].res[1].err = ""

\* C14 witness: a Get missed on a record whose object has another size than
\* the recorded one, and another Get of the session hit.
C14_Witness ==
    /\ GetsOnly /\ Len(calls) = 2 /\ GetsDone = {1, 2}
    /\ \E o \in DirObjects, n \in 0..MaxBody :
          /\ Names(calls[1].ActionID, o, n)
          /\ fs[objectPath(o)].kind = "file" /\ ~Holds(o, n)
          /\ calls[1].res = Miss
    /\ calls[2].ActionID # calls[1].ActionID

\* A decimal integer: an optional sign and one digit at least.
IsInteger(f) ==
    LET ds == IF f # <<>> /\ f[1] \in {"+", "-"} THEN Tail(f) ELSE f
    IN  ds # <<>> /\ \A k \in 1..Len(ds) : ds[k] \in {Digits[v] : v \in 1..10}

\* The record the session found for action a cannot be read, or is not two
\* fields of which the second is a decimal integer.
Malformed(a) ==
    LET f == fs0[actionPath(a)] IN
    \/ f.kind = "dir"
    \/ f.kind = "file"
         /\ ~(Len(Fields(f.data)) = 2 /\ IsInteger(Fields(f.data)[2]))

\* C15: a Get of an action whose record cannot be read for another reason
\* than not existing, or is not two fields with a decimal integer size,
\* returns an error with the empty object id and the empty path.
C15_MalformedRecordIsError ==
    \A g \in GetsDone :
       (GetsOnly /\ Malformed(calls[g].ActionID)) =>
          /\ calls[g].res[1].err # ""
          /\ calls[g].res[1].objectID = <<>>
          /\ calls[g].res[1].diskPath = <<>>

\* C15 witness: a Get returned the error of a record whose size is not a
\* number, the object it names being there.
C15_Witness ==
    \E g \in GetsDone :
       /\ GetsOnly
       /\ Fields(fs0[actionPath(calls[g].ActionID)].data) = <<<<"c", "7">>, <<"x">>>>
       /\ fs[objectPath(<<"c", "7">>)].kind = "file"
       /\ calls[g].res[1].err = "invalid syntax"

\* Put j has renamed its copy of the body to the path of its object.
Renamed(j) ==
    /\ calls[j].op = "put" /\ ~calls[j].skipped
    /\ calls[j].pc \in {"chtimes", "writeAction", "done", "panic"}
    /\ calls[j].pc = "done" => calls[j].res[1].err # "write object"
    /\ calls[j].pc = "panic" => calls[j].ObjectID # <<>>

\* C16: in every interleaving of puts, gets and prune passes, the file at an
\* object path is absent, or what the session found there, or the complete
\* body of a put of that object that has finished its write; the file at an
\* action path is absent, or what the session found there, or the complete
\* record of a put of that action.
C16_WritesAreAtomic ==
    \A p \in Paths :
       \/ fs[p].kind = "none"
       \/ fs[p].kind = fs0[p].kind /\ fs[p].data = fs0[p].data
       \/ \E j \in 1..Len(calls) :
             /\ Renamed(j)
             /\ p = objectPath(calls[j].ObjectID)
             /\ fs[p].kind = "file" /\ fs[p].data = calls[j].Body
       \/ \E j \in 1..Len(calls) :
             /\ calls[j].op = "put" /\ calls[j].pc = "done"
             /\ calls[j].ActionID \in DirActions
             /\ p = actionPath(calls[j].ActionID)
             /\ fs[p].kind = "file"
             /\ fs[p].data = ActionText(calls[j].ObjectID, calls[j].Size)

\* C16 witness: a Get that started while a Put of a body of MaxBody bytes
\* was under way has returned, and the object file of that Put is the whole
\* body.
C16_Witness ==
    \E i \in 1..Len(calls), g \in GetsDone :
       /\ i < g /\ ~Before(i, g)
       /\ Renamed(i) /\ Len(calls[i].Body) = MaxBody
       /\ fs0[objectPath(calls[i].ObjectID)].kind = "none"
       /\ fs[objectPath(calls[i].ObjectID)].data = calls[i].Body

\* Put i found, in a session without prune pass, a regular file of its
\* declared size at the path of its object: the session found one there, and
\* every put of that object declares that size.
FoundObject(i) ==
    /\ calls[i].op = "put" /\ Passes = {}
    /\ calls[i].ObjectID \in DirObjects
    /\ fs0[objectPath(calls[i].ObjectID)].kind = "file"
    /\ Len(fs0[objectPath(calls[i].ObjectID)].data) = calls[i].Size
    /\ \A j \in 1..Len(calls) :
          (calls[j].op = "put" /\ calls[j].ObjectID = calls[i].ObjectID)
             => calls[j].Size = calls[i].Size

\* C17: a Put that finds a regular file of the declared size at the path of
\* its object skips the write and leaves that file as it was, content and
\* modification time; when it returns with success, every other put of its
\* action having returned before it started, the record of its action is a
\* new file naming its object id and size.
C17_PutSkipsPresentObject ==
    \A i \in 1..Len(calls) :
       FoundObject(i) =>
          /\ fs[objectPath(calls[i].ObjectID)] = fs0[objectPath(calls[i].ObjectID)]
          /\ calls[i].pc # "writeObject" => calls[i].skipped
          /\ calls[i].pc \notin {"rename", "chtimes"}
          /\ (/\ calls[i].pc = "done" /\ calls[i].res[1].err = ""
              /\ \A j \in (1..Len(calls)) \ {i} :
                    (calls[j].op = "put" /\ calls[j].ActionID = calls[i].ActionID)
                       => Before(j, i))
                => fs[actionPath(calls[i].ActionID)] =
                      RegularFile(ActionText(calls[i].ObjectID, calls[i].Size), Now)

\* C17 witness: a Put of other bytes than those of the object file the
\* session found, of the same size, has returned with success over an older
\* record of its action; the object file has its old modification time and
\* the record is new.
C17_Witness ==
    \E i \in PutsDone :
       /\ FoundObject(i) /\ calls[i].skipped /\ calls[i].res[1].err = ""
       /\ calls[i].Size = MaxBody /\ calls[i].ModTime # <<>>
       /\ calls[i].Body # fs0[objectPath(calls[i].ObjectID)].data
       /\ fs0[actionPath(calls[i].ActionID)].kind = "file"
       /\ fs[objectPath(calls[i].ObjectID)].mtime = 0
       /\ fs[actionPath(calls[i].ActionID)].mtime = Now

\* The passes that have returned without error.
PassesDone ==
    {i \in Passes : calls[i].pc = "done" /\ calls[i].res[1].err = ""}

\* No put ran while pass i did: each had returned when the pass started, or
\* started when the pass had returned.
NoConcurrentPut(i) ==
    \A j \in 1..Len(calls) :
       calls[j].op = "put" => (Before(j, i) \/ Before(i, j))

\* C18: once a pass of threshold age has returned without error, no put
\* having run while it did, no action record is left whose modification time
\* is more than age before the start of the pass.
C18_NoExpiredRecordRemains ==
    \A i \in PassesDone :
       NoConcurrentPut(i) =>
          \A a \in DirActions :
             fs[actionPath(a)].kind = "file"
                => ~(Now - fs[actionPath(a)].mtime > calls[i].age)

\* C18 witness: a pass of threshold MaxAge has returned without error; of
\* two records of existing objects, it removed the one modified MaxAge + 1
\* before its start and left the one modified MaxAge before its start.
C18_Witness ==
    \E i \in PassesDone :
       /\ Len(calls) = 1 /\ calls[i].age = MaxAge
       /\ \E a, b \in DirActions :
             /\ fs0[actionPath(a)].kind = "file"
             /\ fs0[actionPath(a)].mtime = Now - MaxAge - 1
             /\ fs0[objectPath(Fields(fs0[actionPath(a)].data)[1])].kind = "file"
             /\ fs[actionPath(a)].kind = "none"
             /\ fs0[actionPath(b)].kind = "file"
             /\ fs0[actionPath(b)].mtime = Now - MaxAge
             /\ fs[actionPath(b)] = fs0[actionPath(b)]

\* Pass i returns without error in this step.
PassReturns(i) ==
    /\ calls[i].op = "prune" /\ calls[i].pc # "done"
    /\ calls'[i].pc = "done" /\ calls'[i].res[1].err = ""

\* Every put of the session had returned when pass i started.
PutsBefore(i) ==
    \A j \in 1..Len(calls) : calls[j].op = "put" => Before(j, i)

\* Every other pass of the session had returned when pass i started.
PassesBefore(i) ==
    \A j \in Passes \ {i} : Before(j, i)

\* Object o is named by a record of the tree.
Referenced(tree, o) ==
    \E a \in DirActions :
       /\ tree[actionPath(a)].kind = "file"
       /\ Fields(tree[actionPath(a)].data) # <<>>
       /\ Fields(tree[actionPath(a)].data)[1] = o

\* The objects of the tree no record of it names.
Orphans(tree) ==
    {o \in DirObjects : tree[objectPath(o)].kind = "file" /\ ~Referenced(tree, o)}

PassEnds(i) ==
    calls[i].op = "prune" /\ calls[i].pc # "done" /\ calls'[i].pc = "done"

\* No put of the session ran while a pass did.
NoPutDuringPass ==
    \A j \in 1..Len(calls), k \in Passes :
       calls[j].op = "put" => (Before(j, k) \/ Before(k, j))

\* Every record of the tree after names an object that is in the tree after
\* when it was in the tree before.
ObjectsOfRecordsKept(before, after) ==
    \A a \in DirActions :
       after[actionPath(a)].kind = "file" =>
          \A o \in DirObjects :
             (/\ Fields(after[actionPath(a)].data) # <<>>
              /\ Fields(after[actionPath(a)].data)[1] = o
              /\ before[objectPath(o)].kind = "file")
                => after[objectPath(o)].kind = "file"

\* C20 as stated: when a pass ends, the object file named by a record then
\* present is there if it was there when the pass started.
C20_ReferencedObjectKeptAsStated ==
    [][\A i \in 1..Len(calls) :
          PassEnds(i) => ObjectsOfRecordsKept(calls[i].tree, fs')]_vars

\* C20: when a pass ends, no put having run while a pass did, the object
\* file named by a record then present is there if it was there when the
\* pass started.
C20_ReferencedObjectKept ==
    [][\A i \in 1..Len(calls) :
          (PassEnds(i) /\ NoPutDuringPass)
             => ObjectsOfRecordsKept(calls[i].tree, fs')]_vars

\* C20 witness: a pass of threshold MaxAge found two records of age MaxAge
\* and MaxAge + 1 for two objects, both there, and has returned: the record
\* of age MaxAge and its object are there, the other object is not.
C20_Witness ==
    \E i \in PassesDone :
       /\ Len(calls) = 1 /\ calls[i].age = MaxAge
       /\ \E a, b \in DirActions, o, q \in DirObjects :
             /\ o # q
             /\ fs0[actionPath(a)] = RegularFile(ActionText(o, 1), Now - MaxAge)
             /\ fs0[actionPath(b)] = RegularFile(ActionText(q, 1), Now - MaxAge - 1)
             /\ fs0[objectPath(o)].kind = "file" /\ fs0[objectPath(q)].kind = "file"
             /\ fs[actionPath(a)] = fs0[actionPath(a)]
             /\ fs[objectPath(o)] = fs0[objectPath(o)]
             /\ fs[objectPath(q)].kind = "none"

\* Call i takes a step.
Steps(i) == i \in 1..Len(calls) /\ calls'[i] # calls[i]

\* C28: a step that changes the tree is a step of a Put or of a pass; a step
\* after which a record or an object file is no longer there is a step of a
\* pass; a step of a Get leaves every path of the tree as it is.
C28_OnlyPruneRemoves ==
    [][/\ fs' # fs =>
             \E i \in 1..Len(calls) : Steps(i) /\ calls[i].op \in {"put", "prune"}
       /\ (\E p \in Paths : fs[p].kind = "file" /\ fs'[p].kind # "file") =>
             \E i \in 1..Len(calls) : Steps(i) /\ calls[i].op = "prune"
       /\ \A i \in 1..Len(calls) :
             (Steps(i) /\ calls[i].op \in {"get", "put"}) =>
                \A p \in Paths : fs[p].kind = "file" => fs'[p].kind = "file"
       /\ \A i \in 1..Len(calls) :
             (Steps(i) /\ calls[i].op = "get") => fs' = fs]_vars

\* C28 witness: a Get has missed on a record of another size than the object
\* file and the record is as it was; a Put of that object with the recorded
\* size has replaced the object file.
C28_Witness ==
    \E g \in GetsDone, p \in PutsDone :
       LET rec == actionPath(calls[g].ActionID)
           obj == objectPath(calls[p].ObjectID)
       IN  /\ g < p /\ calls[g].res = Miss
           /\ fs0[rec].kind = "file" /\ fs0[obj].kind = "file"
           /\ Fields(fs0[rec].data)[1] = calls[p].ObjectID
           /\ calls[p].ActionID # calls[g].ActionID
           /\ fs[rec] = fs0[rec]
           /\ ~calls[p].skipped /\ calls[p].res[1].err = ""
           /\ fs[obj].data = calls[p].Body /\ fs[obj].data # fs0[obj].data

\* The puts of action a, and the pairs (object id, size) of their records.
PutsOf(a) == {j \in 1..Len(calls) : calls[j].op = "put" /\ calls[j].ActionID = a}
PutPairs(a) == {<<calls[j].ObjectID, calls[j].Size>> : j \in PutsOf(a)}

\* The pair of the record the session found for action a, left by an
\* earlier put.
FoundPairs(a) ==
    LET f == fs0[actionPath(a)] IN
    IF f.kind = "file" /\ Len(Fields(f.data)) = 2 /\ IsInteger(Fields(f.data)[2])
      THEN {<<Fields(f.data)[1], ParseInt(Fields(f.data)[2]).n>>}
      ELSE {}

\* C29: in every interleaving of puts and gets, the pair (object id, size) a
\* Get has read from the record of its action is the pair of one put of that
\* action, or the pair the session found, whole; a hit names the object of
\* the pair read. Once every put has returned, no pass having run, the
\* record of an action is the record of one of its puts that returned with
\* success, or what the session found when none did.
C29_RecordOfOnePut ==
    /\ \A g \in 1..Len(calls) :
          (calls[g].op = "get" /\ calls[g].objectID # <<>>) =>
             /\ <<calls[g].objectID, calls[g].sz>>
                   \in PutPairs(calls[g].ActionID) \cup FoundPairs(calls[g].ActionID)
             /\ calls[g].pc = "done" =>
                   calls[g].res \in {Miss, Hit(calls[g].objectID)}
    /\ (Passes = {}
        /\ \A j \in 1..Len(calls) : calls[j].op = "put" => calls[j].pc = "done")
          => \A a \in DirActions :
                LET won == {j \in PutsOf(a) : calls[j].res[1].err = ""} IN
                IF won = {} THEN fs[actionPath(a)] = fs0[actionPath(a)]
                ELSE \E j \in won :
                        fs[actionPath(a)] =
                           RegularFile(ActionText(calls[j].ObjectID, calls[j].Size), Now)

\* C29 witness: two puts of one action, of two objects and two sizes, and a
\* Get of that action ran together; the Get read the pair of one put and the
\* record is the record of the other.
C29_Witness ==
    \E p, q \in PutsDone, g \in GetsDone :
       /\ p # q /\ ~Before(p, g) /\ ~Before(q, g) /\ ~Before(p, q) /\ ~Before(q, p)
       /\ calls[p].ActionID = calls[g].ActionID
       /\ calls[q].ActionID = calls[g].ActionID
       /\ calls[p].ObjectID # calls[q].ObjectID /\ calls[p].Size # calls[q].Size
       /\ calls[p].res[1].err = "" /\ calls[q].res[1].err = ""
       /\ <<calls[g].objectID, calls[g].sz>> = <<calls[p].ObjectID, calls[p].Size>>
       /\ calls[g].res = Hit(calls[p].ObjectID)
       /\ fs[actionPath(calls[g].ActionID)].data =
             ActionText(calls[q].ObjectID, calls[q].Size)

-----------------------------------------------------------------------------
(* Properties of the disk store behind the server *)

\* os.Stat(diskPath) of handleRequest on the tree as it is now.
StatNow(diskPath) ==
    LET f == IF diskPath = <<>> THEN NoFile ELSE FileAt(diskPath[1]) IN
    [err |-> IF f.kind = "none" THEN "not exist" ELSE "",
     regular |-> f.kind = "file",
     size |-> IF f.kind = "file" THEN Len(f.data) ELSE 0]

\* What handleRequest makes of the result of Get g, the hook of the server
\* being Dir.Get as in cmd/diskcache, when its os.Stat runs now.
ServerGet(g) ==
    LET r == calls[g].res[1] IN
    handleRequest(s, progRequest(g, "get", "03", 0),
                  [NoEnv EXCEPT
                     !.get = [objectID |-> r.objectID,
                              diskPath |-> IF r.diskPath = <<>> THEN "" ELSE "objPath",
                              err |-> r.err # ""],
                     !.stat = StatNow(r.diskPath)])

\* The function d.Cleanup(age) returns, the hook Close of cmd/diskcache:
\* the error of pass i.
Cleanup(i) == calls[i].res[1].err

\* What handleRequest makes of the result of pass i, the hook Close of the
\* server being the function of Cleanup.
ServerClose(i) ==
    handleRequest(s, progRequest(i, "close", "", 0),
                  [NoEnv EXCEPT !.close = Cleanup(i) # ""])

\* Put p has returned with success and ran while pass k did.
PutRacedPass(p, k) ==
    /\ p \in PutsDone /\ calls[p].res[1].err = ""
    /\ k \in Passes
    /\ ~Before(p, k) /\ ~Before(k, p)

\* C21: when a Put ran while a prune pass did, a Get of the action of the
\* Put that starts after the Put returned is answered without error, with a
\* miss or with a hit whose diskPath is a file of the tree when the server
\* examines it; it is a miss, of Dir.Get and of the server, when the pass
\* had returned and the object file was gone when the Get started.
C21_RacedPutReadsAsMiss ==
    \A p \in PutsDone, k \in Passes, g \in GetsDone :
       (PutRacedPass(p, k) /\ Before(p, g)
          /\ calls[g].ActionID = calls[p].ActionID) =>
          /\ calls[g].res[1].err = ""
          /\ ServerGet(g).oerr = ""
          /\ (\/ ServerGet(g).pr[1].Miss
              \/ /\ ServerGet(g).pr[1].DiskPath = "objPath"
                 /\ FileAt(calls[g].res[1].diskPath[1]).kind = "file")
          /\ (Before(k, g) /\ fs[objectPath(calls[p].ObjectID)].kind = "none")
                => (calls[g].res = Miss /\ ServerGet(g).pr[1].Miss)

\* C21 witness: a Put wrote its object file and returned with its record
\* written, a pass that ran meanwhile removed the object file in its sweep
\* and left the record, and a Get of the action that started after both
\* has returned.
C21_Witness ==
    \E p \in PutsDone, k \in PassesDone, g \in GetsDone :
       /\ PutRacedPass(p, k) /\ Before(p, g) /\ Before(k, g)
       /\ ~calls[p].skipped
       /\ fs0[objectPath(calls[p].ObjectID)].kind = "none"
       /\ fs[objectPath(calls[p].ObjectID)].kind = "none"
       /\ calls[k].s.ObjectsPruned = 1
       /\ fs[actionPath(calls[p].ActionID)] =
             RegularFile(ActionText(calls[p].ObjectID, calls[p].Size), Now)
       /\ calls[g].ActionID = calls[p].ActionID

-----------------------------------------------------------------------------
(* Properties of the responses to get and put *)

\* The tasks whose handler has returned, by the command of their request.
Handled(cmd) ==
    {i \in 1..Len(tasks) : tasks[i].rsp # <<>> /\ tasks[i].req.Command = cmd}

\* The gets answered with a hit, and the puts answered with success.
GetHits == {i \in Handled("get") : tasks[i].rsp[1].Err = "" /\ ~tasks[i].rsp[1].Miss}
PutsStored == {i \in Handled("put") : tasks[i].rsp[1].Err = ""}

\* C12 as stated: the response to a get that hits reports the object id the
\* backend returned for the action, with the size and the diskPath.
C12_HitReportsObjectID ==
    \A i \in GetHits :
       /\ tasks[i].rsp[1].OutputID = tasks[i].env[1].get.objectID
       /\ tasks[i].rsp[1].Size = tasks[i].env[1].stat.size
       /\ tasks[i].rsp[1].DiskPath = tasks[i].env[1].get.diskPath

\* C13 as stated: the response to a successful put carries the size, the
\* timestamp and the diskPath of the stored object, as that to a get hit.
C13_PutCarriesSizeAndTimeAsStated ==
    \A i \in PutsStored :
       /\ tasks[i].rsp[1].DiskPath = tasks[i].env[1].put.diskPath
       /\ tasks[i].rsp[1].Size = tasks[i].env[1].stat.size
       /\ tasks[i].rsp[1].Time # "nil"

\* C13 amended: the response to a successful put carries the diskPath the
\* put hook returned and neither a size nor a timestamp; the response to a
\* get hit carries the size, the timestamp and the diskPath of the object.
C13_PutCarriesDiskPath ==
    /\ \A i \in PutsStored :
          tasks[i].rsp[1] =
             [progResponse EXCEPT !.ID = tasks[i].req.ID,
                                  !.DiskPath = tasks[i].env[1].put.diskPath]
    /\ \A i \in GetHits :
          /\ tasks[i].rsp[1].DiskPath = tasks[i].env[1].get.diskPath
          /\ tasks[i].rsp[1].Size = tasks[i].env[1].stat.size
          /\ tasks[i].rsp[1].Time = "modtime"

\* C13 witness: a put of a body was stored and a get hit, and both
\* responses are written.
C13_Witness ==
    \E i \in PutsStored, j \in GetHits :
       /\ tasks[i].req.BodySize > 0
       /\ tasks[i].rsp[1].DiskPath = "objPath"
       /\ tasks[j].rsp[1].Size > 0
       /\ \E k, l \in Tails : out[k].msg = tasks[i].rsp[1] /\ out[l].msg = tasks[j].rsp[1]

-----------------------------------------------------------------------------
(* Properties of close *)

\* The close requests whose handler has returned, and the tasks whose
\* handler called the Close hook.
Closes == Handled("close")
CloseCalls ==
    {i \in 1..Len(tasks) :
        tasks[i].rsp # <<>> /\ HookOf(s, tasks[i].req) = "Close"}

\* C22: the response to a close request carries the request's id; with a
\* Close hook, the hook is called and the response has an err exactly when
\* the hook returned an error; without one, no hook is called and the
\* response has no err. The handler of a close changes neither Run's position
\* nor its result, and the loop can decode on.
C22_CloseReportsHookError ==
    /\ [](\A i \in Closes :
             /\ tasks[i].rsp[1].ID = tasks[i].req.ID
             /\ ~tasks[i].rsp[1].Miss /\ tasks[i].rsp[1].DiskPath = ""
             /\ IF s.Close
                  THEN /\ i \in CloseCalls
                       /\ (tasks[i].rsp[1].Err # "") <=> tasks[i].env[1].close
                  ELSE /\ i \notin CloseCalls
                       /\ tasks[i].env[1] = NoEnv
                       /\ tasks[i].rsp[1].Err = "")
    /\ [](pc = "decode" => ENABLED Decode)
    /\ [][(\E i \in 1..Len(tasks) :
              /\ tasks[i].req.Command = "close"
              /\ tasks[i].env = <<>> /\ tasks'[i].env # <<>>)
             => (pc' = pc /\ xerr' = xerr /\ req' = req /\ nread' = nread)]_vars

\* C22 witness: the Close hook failed, the response of the close request is
\* written with an err, and Run is reading the next request.
C22_Witness ==
    /\ pc = "decode" /\ xerr = "running" /\ s.Close
    /\ Len(tasks) = 1 /\ tasks[1].pc = "done" /\ ~tasks[1].werr
    /\ tasks[1].req.Command = "close" /\ tasks[1].env[1].close
    /\ Len(out) = 4 /\ out[3].msg.ID = tasks[1].req.ID /\ out[3].msg.Err # ""

\* C23 as stated: in one session the Close hook is called once at most,
\* whatever requests the peer sends.
C23_CloseHookAtMostOnce == Cardinality(CloseCalls) <= 1

\* C24 as stated: when Run has returned nil, on a clean end of input, with a
\* Close hook configured, the hook has been called exactly once.
C24_CloseHookOnceAtEnd ==
    (pc = "done" /\ xerr = "nil" /\ s.Close) => Cardinality(CloseCalls) = 1

-----------------------------------------------------------------------------
(* Properties of the answers to get and put *)

\* The answers of the Get hook: the miss, and an object id that is not empty
\* and decodes as hexadecimal.
HookMiss(e) == ~e.get.err /\ e.get.objectID = <<>> /\ e.get.diskPath = ""
HookValidID(e) ==
    /\ ~e.get.err /\ e.get.objectID # <<>>
    /\ Len(e.get.objectID) % 2 = 0
    /\ \A k \in 1..Len(e.get.objectID) : e.get.objectID[k] \in HexDigits

\* C25: the response to a get has miss and no err exactly when there is no
\* Get hook, or the hook returned the empty object id, the empty path and no
\* error, or the hook returned a valid object id and the path it returned
\* does not exist; a response with miss has no err.
C25_MissExactlyWhen ==
    \A i \in Handled("get") :
       /\ tasks[i].rsp[1].ID = tasks[i].req.ID
       /\ tasks[i].rsp[1].Miss => tasks[i].rsp[1].Err = ""
       /\ tasks[i].rsp[1].Miss <=>
             \/ ~s.Get
             \/ HookMiss(tasks[i].env[1])
             \/ HookValidID(tasks[i].env[1])
                  /\ tasks[i].env[1].stat.err = "not exist"

\* C25 witness: the Get hook returned a valid object id and a path that does
\* not exist, and the response written for the get is a miss without err.
C25_Witness ==
    \E i \in Handled("get") :
       /\ s.Get /\ HookValidID(tasks[i].env[1])
       /\ tasks[i].env[1].get.diskPath = "objPath"
       /\ tasks[i].env[1].stat.err = "not exist"
       /\ tasks[i].pc = "done" /\ ~tasks[i].werr
       /\ Len(out) = 4 /\ out[3].msg.Miss /\ out[3].msg.Err = ""

\* The get of task i was answered with an error: an err, no miss, and none
\* of the fields of a hit.
GetError(i) ==
    /\ tasks[i].rsp[1].ID = tasks[i].req.ID
    /\ tasks[i].rsp[1].Err # "" /\ ~tasks[i].rsp[1].Miss
    /\ tasks[i].rsp[1].DiskPath = "" /\ tasks[i].rsp[1].Size = 0
    /\ tasks[i].rsp[1].Time = "nil"

\* C26: the response to a get is an error, neither a miss nor a hit, when the
\* Get hook returned a path with the empty object id, or an object id that is
\* not hexadecimal, or a valid object id with a path that exists and is not a
\* regular file or that os.Stat cannot examine for another reason than its
\* not existing.
C26_BadHookAnswerIsError ==
    \A i \in Handled("get") :
       LET e == tasks[i].env[1] IN
       (/\ s.Get /\ ~e.get.err
        /\ \/ e.get.objectID = <<>> /\ e.get.diskPath # ""
           \/ e.get.objectID # <<>> /\ ~HookValidID(e)
           \/ HookValidID(e) /\ e.stat.err \notin {"", "not exist"}
           \/ HookValidID(e) /\ e.stat.err = "" /\ ~e.stat.regular)
          => GetError(i)

\* C26 witness: the Get hook returned a valid object id and the path of
\* something that is no regular file, and the response written for the get
\* has an err.
C26_Witness ==
    \E i \in Handled("get") :
       /\ s.Get /\ HookValidID(tasks[i].env[1])
       /\ tasks[i].env[1].stat.err = "" /\ ~tasks[i].env[1].stat.regular
       /\ tasks[i].pc = "done" /\ ~tasks[i].werr
       /\ Len(out) = 4 /\ out[3].msg.Err # "" /\ ~out[3].msg.Miss

\* C27: the response to a put has no err only when the Put hook returned
\* without error and os.Stat of the path it returned succeeded with the
\* declared bodySize; when the path is missing or has another size the
\* response has an err and no diskPath. The handler of a put changes neither
\* Run's position nor its result, and the loop can decode on.
C27_PutVerifiesStoredSize ==
    /\ [](\A i \in Handled("put") :
             LET e == tasks[i].env[1] IN
             /\ tasks[i].rsp[1].ID = tasks[i].req.ID
             /\ tasks[i].rsp[1].Err = "" =>
                   /\ s.Put /\ ~e.put.err
                   /\ e.stat.err = "" /\ e.stat.size = tasks[i].req.BodySize
             /\ (s.Put /\ ~e.put.err
                 /\ (e.stat.err # "" \/ e.stat.size # tasks[i].req.BodySize))
                   => (tasks[i].rsp[1].Err # "" /\ tasks[i].rsp[1].DiskPath = ""))
    /\ [](pc = "decode" => ENABLED Decode)
    /\ [][(\E i \in 1..Len(tasks) :
              /\ tasks[i].req.Command = "put"
              /\ tasks[i].env = <<>> /\ tasks'[i].env # <<>>)
             => (pc' = pc /\ xerr' = xerr /\ req' = req /\ nread' = nread)]_vars

\* C27 witness: the Put hook returned the path of a file shorter than the
\* declared bodySize; the response of the put is written with an err and Run
\* is reading the next request.
C27_Witness ==
    /\ pc = "decode" /\ xerr = "running" /\ s.Put
    /\ Len(tasks) = 1 /\ tasks[1].pc = "done" /\ ~tasks[1].werr
    /\ tasks[1].req.Command = "put" /\ tasks[1].req.BodySize = MaxBody
    /\ tasks[1].req.Body = <<MaxBody>>
    /\ ~tasks[1].env[1].put.err
    /\ tasks[1].env[1].stat.err = "" /\ tasks[1].env[1].stat.size < MaxBody
    /\ Len(out) = 4 /\ out[3].msg.ID = tasks[1].req.ID /\ out[3].msg.Err # ""

-----------------------------------------------------------------------------
(* Properties of the decode loop *)

\* A put that announces a body.
PutWithBody(r) == r.Command = "put" /\ r.BodySize > 0

\* C30: a value is read from the input as a body exactly when the request
\* just decoded is a put with bodySize > 0, and as a request otherwise. A
\* task is started right after its body for such a put, with a body of
\* bodySize bytes, and right after its request for any other request, with
\* no body (the handler of a put then reads an empty body); the loop then
\* decodes the next value as a request.
C30_BodyReadExactlyForPutWithBody ==
    [][/\ nread' # nread =>
            /\ last'.at = "body" <=> (req # <<>> /\ PutWithBody(req[1]))
            /\ last'.at = "request" <=> req = <<>>
       /\ Len(tasks') > Len(tasks) =>
            LET r == tasks'[Len(tasks')].req IN
            /\ last.at = "body" <=> PutWithBody(r)
            /\ r.Body = IF PutWithBody(r) THEN <<r.BodySize>> ELSE <<>>
            /\ pc' = "decode"]_vars

\* C30 witness: a get with bodySize MaxBody was started with no body, and the
\* body value that followed it was decoded as a request, which failed.
C30_Witness ==
    /\ Len(tasks) = 1
    /\ tasks[1].req.Command = "get" /\ tasks[1].req.BodySize = MaxBody
    /\ tasks[1].req.Body = <<>>
    /\ nread = 2 /\ last = [at |-> "request", v |-> "body"]
    /\ xerr = "decode error"

-----------------------------------------------------------------------------
(* Properties of the phases of a prune pass *)

\* Pass i gives the record at the next path of the mark phase to the
\* function of the walk in this step.
Marks(i) ==
    /\ i \in 1..Len(calls)
    /\ calls[i].op = "prune" /\ calls[i].pc = "mark" /\ calls'[i] # calls[i]
    /\ fs[ActionWalk[calls[i].next]].kind = "file"

\* The record is removed and counted, and its object is not retained; when
\* os.Remove fails the record is counted and the pass ends.
Pruned(i, path) ==
    /\ calls'[i].s.ActionsPruned = calls[i].s.ActionsPruned + 1
    /\ calls'[i].keepObject = calls[i].keepObject
    /\ \/ fs'[path] = NoFile /\ calls'[i].pc # "done"
       \/ fs'[path] = fs[path] /\ calls'[i].pc = "done"
          /\ calls'[i].res[1].err = "remove"

\* The record is left as it is, and its object is retained.
Kept(i, path, o) ==
    /\ calls'[i].s.ActionsPruned = calls[i].s.ActionsPruned
    /\ calls'[i].keepObject = calls[i].keepObject \cup {o}
    /\ fs'[path] = fs[path]
    /\ calls'[i].pc # "done"

\* C31: the mark phase treats a record it can parse in this order: the
\* record of an absent object is removed and counted as pruned and its
\* object is not retained, fresh or not; otherwise a record modified more
\* than age before the start of the pass is removed and counted and its
\* object is not retained; otherwise, a record modified exactly age before
\* the start included, the record is left and its object is retained.
C31_MarkTreatsRecordInOrder ==
    [][\A i \in 1..(MaxCalls + 1) :
          LET path == ActionWalk[calls[i].next]
              o == Fields(fs[path].data)[1]
          IN  (Marks(i) /\ Len(Fields(fs[path].data)) = 2
                 /\ IsInteger(Fields(fs[path].data)[2])) =>
                 (IF fs[objectPath(o)].kind = "none" THEN Pruned(i, path)
                  ELSE IF Now - fs[path].mtime > calls[i].age THEN Pruned(i, path)
                  ELSE Kept(i, path, o))]_vars

\* C31 witness: a pass of threshold MaxAge met two records modified exactly
\* MaxAge before its start; it removed the one whose object was absent and
\* left the other, whose object it retained.
C31_Witness ==
    \E i \in PassesDone :
       LET t == calls[i].tree
           a == actionPath(<<"0", "3">>)
           b == actionPath(<<"0", "4", "a">>)
       IN  /\ Len(calls) = 1 /\ calls[i].age = MaxAge
           /\ t[a].kind = "file" /\ t[a].mtime = Now - MaxAge
           /\ t[objectPath(Fields(t[a].data)[1])].kind = "none"
           /\ fs[a] = NoFile
           /\ t[b].kind = "file" /\ t[b].mtime = Now - MaxAge
           /\ t[objectPath(Fields(t[b].data)[1])].kind = "file"
           /\ fs[b] = t[b]
           /\ calls[i].keepObject = {Fields(t[b].data)[1]}
           /\ calls[i].s.Actions = 2 /\ calls[i].s.ActionsPruned = 1

\* An os.Remove of the sweep of pass i fails in this step.
RemoveFails(i) ==
    /\ i \in 1..Len(calls)
    /\ calls[i].op = "prune" /\ calls[i].pc = "sweep"
    /\ ~calls[i].removeFailed /\ calls'[i].removeFailed

\* C32: when os.Remove fails on an object file in the sweep, the sweep goes
\* on with the next object file, or returns after the last; a pass in which
\* a removal of the sweep failed returns no error, and the close request it
\* serves is answered without err.
C32_SweepIgnoresRemoveFailure ==
    /\ [][\A i \in 1..(MaxCalls + 1) :
             RemoveFails(i) =>
                IF calls[i].next < Len(ObjectWalk)
                  THEN calls'[i].pc = "sweep" /\ calls'[i].next = calls[i].next + 1
                  ELSE calls'[i].pc = "done"]_vars
    /\ [](\A i \in Passes :
             (calls[i].removeFailed /\ calls[i].pc = "done") =>
                /\ calls[i].res[1].err = ""
                /\ ServerClose(i).oerr = ""
                /\ taskResponse(progRequest(i, "close", "", 0), ServerClose(i)).Err = "")

\* C32 witness: a pass met two object files no record named; os.Remove
\* failed on the first, which is still there, and the pass removed the
\* second and returned without error.
C32_Witness ==
    \E i \in Passes :
       /\ calls[i].pc = "done" /\ calls[i].removeFailed
       /\ calls[i].tree[ObjectWalk[1]].kind = "file"
       /\ calls[i].tree[ObjectWalk[2]].kind = "file"
       /\ fs[ObjectWalk[1]] = calls[i].tree[ObjectWalk[1]]
       /\ fs[ObjectWalk[2]] = NoFile
       /\ calls[i].s.ObjectsPruned = 2
       /\ calls[i].res[1].err = ""
       /\ ServerClose(i).oerr = ""

-----------------------------------------------------------------------------
(* Properties of the summary of a prune pass *)

\* The action records and the object files of a tree.
RecordsIn(tree) == {p \in Paths : p.kind = "action" /\ tree[p].kind = "file"}
ObjectsIn(tree) == {p \in Paths : p.kind = "object" /\ tree[p].kind = "file"}

\* The total size of the files of tree at the paths of P.
RECURSIVE BytesIn(_, _)
BytesIn(P, tree) ==
    IF P = {} THEN 0
    ELSE LET p == CHOOSE x \in P : TRUE
         IN  Len(tree[p].data) + BytesIn(P \ {p}, tree)

\* Pass i was the only call of the session and has returned without error.
PassAlone(i) == Len(calls) = 1 /\ i \in PassesDone

\* The summary of pass i tells what it saw in the tree it started on, what
\* it removed from it, and what is left.
SummaryMatches(i) ==
    LET st == calls[i].s
        t == calls[i].tree
    IN  /\ st.Actions = Cardinality(RecordsIn(t))
        /\ st.Objects = Cardinality(ObjectsIn(t))
        /\ st.ActionsPruned = Cardinality(RecordsIn(t) \ RecordsIn(fs))
        /\ st.ObjectsPruned = Cardinality(ObjectsIn(t) \ ObjectsIn(fs))
        /\ st.BytesPruned = BytesIn(ObjectsIn(t) \ ObjectsIn(fs), t)
        /\ st.Actions - st.ActionsPruned = Cardinality(RecordsIn(fs))
        /\ st.Objects - st.ObjectsPruned = Cardinality(ObjectsIn(fs))

\* C33 as stated: the summary a pass returns matches what the pass did:
\* Actions and Objects count the records and the object files seen,
\* ActionsPruned and ObjectsPruned the records and the object files removed,
\* BytesPruned the bytes of the object files removed, and the differences
\* the records and the objects left in the store.
C33_SummaryMatchesPass ==
    \A i \in Passes : PassAlone(i) => SummaryMatches(i)

\* The summary matches when no os.Remove of the sweep failed.
SummaryMatchesUnlessRemoveFailed ==
    \A i \in Passes : (PassAlone(i) /\ ~calls[i].removeFailed) => SummaryMatches(i)

-----------------------------------------------------------------------------
(* Properties of the errors of a prune pass *)

\* What is at the next path of the mark phase of pass i is a file that is
\* not two fields of which the second is a decimal integer.
MeetsUnparsable(i) ==
    LET d == fs[ActionWalk[calls[i].next]].data IN
    Marks(i) /\ ~(Len(Fields(d)) = 2 /\ IsInteger(Fields(d)[2]))

\* The mark phase of pass i finds the record at its next path stale or
\* expired, and the record is still there after the step.
FailsToRemove(i) ==
    LET path == ActionWalk[calls[i].next]
        d == fs[path].data
    IN  /\ Marks(i) /\ Len(Fields(d)) = 2 /\ IsInteger(Fields(d)[2])
        /\ \/ fs[objectPath(Fields(d)[1])].kind = "none"
           \/ Now - fs[path].mtime > calls[i].age
        /\ fs'[path] = fs[path]

\* C34: when the mark phase meets a record it cannot parse, or fails to
\* remove a stale or expired record, the pass returns the error in that
\* step and changes nothing more. A pass that has returned an error in the
\* mark phase has examined no record after the failing one, has seen and
\* removed no object file, and the close request it serves is answered with
\* an err.
C34_MarkErrorEndsPass ==
    /\ [][\A i \in 1..(MaxCalls + 1) :
             (MeetsUnparsable(i) \/ FailsToRemove(i)) =>
                /\ calls'[i].pc = "done" /\ calls'[i].res[1].err # ""
                /\ calls'[i].next = calls[i].next
                /\ fs' = fs]_vars
    /\ [](\A i \in Passes :
             (calls[i].pc = "done" /\ calls[i].res[1].err # "") =>
                /\ calls[i].s.Objects = 0 /\ calls[i].s.ObjectsPruned = 0
                /\ calls[i].s.Actions <= calls[i].next
                /\ Len(calls) = 1 =>
                     /\ \A p \in Paths : p.kind = "object" => fs[p] = calls[i].tree[p]
                     /\ \A k \in (calls[i].next + 1)..Len(ActionWalk) :
                           fs[ActionWalk[k]] = calls[i].tree[ActionWalk[k]]
                /\ ServerClose(i).oerr # ""
                /\ taskResponse(progRequest(i, "close", "", 0), ServerClose(i)).Err # "")

\* C34 witness: a pass met a file it could not parse at the first path of
\* its walk and returned the error; the expired record after it and the
\* object file no record names are still there.
C34_Witness ==
    \E i \in Passes :
       /\ Len(calls) = 1
       /\ calls[i].pc = "done" /\ calls[i].res[1].err = "invalid action file"
       /\ calls[i].next = 1 /\ calls[i].s = Stats
       /\ fs[ActionWalk[2]].kind = "file"
       /\ Now - fs[ActionWalk[2]].mtime > calls[i].age
       /\ Fields(fs[ActionWalk[2]].data)[1] = <<"0", "b", "1", "e">>
       /\ fs[objectPath(<<"0", "b", "1", "e">>)].kind = "file"
       /\ fs[objectPath(<<"c", "7">>)].kind = "file"
       /\ ServerClose(i).oerr # ""

-----------------------------------------------------------------------------
(* Properties of requests without ids *)

\* The calls of Get and Put the server makes for a request whose action id
\* or object id is absent or empty.
AbsentIds ==
    {i \in 1..Len(calls) :
        \/ calls[i].op \in {"get", "put"} /\ calls[i].ActionID = <<>>
        \/ calls[i].op = "put" /\ calls[i].ObjectID = <<>>}

\* C35 as stated: a get or put request whose action id or object id is
\* absent or empty is contained: the call the server makes for it on the
\* disk store returns, with a miss or an error, and never ends the session.
C35_AbsentIdContained ==
    \A i \in AbsentIds : calls[i].pc # "panic"

-----------------------------------------------------------------------------
(* Properties of the order of the writes of a put *)

\* The record of action a is not the one the session found: a put of the
\* session wrote it.
WrittenBySession(a) ==
    fs[actionPath(a)].kind = "file" /\ fs[actionPath(a)] # fs0[actionPath(a)]

\* Put i returns the error of the write of its object in this step.
ObjectWriteFails(i) ==
    /\ i \in 1..Len(calls)
    /\ calls[i].op = "put" /\ calls[i].pc # "done"
    /\ calls'[i].pc = "done" /\ calls'[i].res[1].err = "write object"

\* C36: in every interleaving of puts and gets, no pass running, a record a
\* put of the session wrote names an object whose file exists; a put whose
\* write of the object fails returns that error without having touched the
\* tree, so the record of its action is what it was.
C36_ObjectBeforeRecord ==
    /\ [](Passes = {} =>
            \A a \in DirActions :
               WrittenBySession(a) =>
                  fs[objectPath(Fields(fs[actionPath(a)].data)[1])].kind = "file")
    /\ [][\A i \in 1..(MaxCalls + 1) : ObjectWriteFails(i) => fs' = fs]_vars
    /\ [](\A i \in PutsDone :
             (Len(calls) = 1 /\ calls[i].res[1].err = "write object") => fs = fs0)

\* C36 witness: two puts of one action and two objects ran together; the
\* write of the object of one failed, the other wrote its object and the
\* record, which names it.
C36_Witness ==
    \E p, q \in PutsDone :
       /\ Passes = {} /\ ~Before(p, q) /\ ~Before(q, p)
       /\ calls[p].ActionID = calls[q].ActionID
       /\ calls[p].ObjectID # calls[q].ObjectID
       /\ calls[q].res[1].err = "write object"
       /\ calls[p].res[1].err = "" /\ ~calls[p].skipped
       /\ WrittenBySession(calls[p].ActionID)
       /\ Fields(fs[actionPath(calls[p].ActionID)].data)[1] = calls[p].ObjectID
       /\ fs[objectPath(calls[p].ObjectID)].kind = "file"
       /\ fs[objectPath(calls[q].ObjectID)].kind = "none"

-----------------------------------------------------------------------------
(* Properties of the counters *)

\* The get handlers that have started and those that have returned, and
\* what each that has returned answered.
GetsStarted ==
    {i \in 1..Len(tasks) : tasks[i].req.Command = "get" /\ tasks[i].pc # "handle"}
GetsReturned ==
    {i \in 1..Len(tasks) : tasks[i].req.Command = "get" /\ tasks[i].rsp # <<>>}
GetsAnswered(kind) ==
    {i \in GetsReturned :
        kind = CASE tasks[i].rsp[1].Err # "" -> "error"
                 [] tasks[i].rsp[1].Miss -> "miss"
                 [] OTHER -> "hit"}

\* C37: in every interleaving get_requests counts the get handlers that
\* have started, and get_hits, get_misses and get_errors the get handlers
\* that have returned a hit, a miss and an error, each handler counted once:
\* get_hits + get_misses + get_errors <= get_requests, with equality when no
\* get handler is running.
C37_GetCountersConsistent ==
    /\ metrics.getRequests = Cardinality(GetsStarted)
    /\ metrics.getHits = Cardinality(GetsAnswered("hit"))
    /\ metrics.getMisses = Cardinality(GetsAnswered("miss"))
    /\ metrics.getErrors = Cardinality(GetsAnswered("error"))
    /\ metrics.getHits + metrics.getMisses + metrics.getErrors <= metrics.getRequests
    /\ GetsStarted = GetsReturned
          => metrics.getHits + metrics.getMisses + metrics.getErrors
                = metrics.getRequests

\* C37 witness: of two gets handled together one has returned a hit while
\* the handler of the other is running: the sum is 1 and get_requests is 2.
C37_Witness ==
    /\ Len(tasks) = 2
    /\ tasks[1].req.Command = "get" /\ tasks[2].req.Command = "get"
    /\ tasks[1].pc = "hook" /\ tasks[2].rsp # <<>>
    /\ metrics.getRequests = 2
    /\ metrics.getHits = 1 /\ metrics.getMisses = 0 /\ metrics.getErrors = 0

\* The put handlers that have returned, and the sum of bodySize over those
\* of the first n tasks that answered with success.
PutsReturned ==
    {i \in 1..Len(tasks) : tasks[i].req.Command = "put" /\ tasks[i].rsp # <<>>}

RECURSIVE StoredBytes(_)
StoredBytes(n) ==
    IF n = 0 THEN 0
    ELSE StoredBytes(n - 1)
           + (IF n \in PutsReturned /\ tasks[n].rsp[1].Err = ""
                THEN tasks[n].req.BodySize ELSE 0)

\* No put is being handled: each put started has returned and Run holds no
\* request between its decoding and its start.
NoPutRunning ==
    /\ req = <<>>
    /\ \A i \in 1..Len(tasks) : tasks[i].req.Command = "put" => i \in PutsReturned

\* C38 as stated: when no put handler is running, put_bytes is the sum of
\* bodySize over the puts answered with success; a put answered with an
\* error adds nothing.
C38_PutBytesCountsStoredOnce ==
    NoPutRunning => metrics.putBytes = StoredBytes(Len(tasks))

\* The sum of bodySize over the puts of the first n tasks whose body Run
\* has read.
RECURSIVE ReadBytes(_)
ReadBytes(n) ==
    IF n = 0 THEN 0
    ELSE ReadBytes(n - 1)
           + (IF tasks[n].req.Command = "put" /\ tasks[n].req.Body # <<>>
                THEN tasks[n].req.BodySize ELSE 0)

\* put_bytes as the code counts it: bodySize for every put whose body Run
\* has read, and bodySize again for every put answered with success.
PutBytesAsCounted ==
    NoPutRunning =>
       metrics.putBytes = ReadBytes(Len(tasks)) + StoredBytes(Len(tasks))

====
